---- MODULE Spec2Model ----
EXTENDS Integers, Sequences, FiniteSets, TLC

(***************************************************************************)
(* Model of the tool-invocation orchestration code of the chat backend:    *)
(*   utils/tool_inline_executor.py  ToolInlineExecutor (streaming markers) *)
(*   utils/tool_gating.py           parse_tool_selection_response          *)
(*                                                                         *)
(* Text is a sequence of lexical units.  A unit is one character ("<",      *)
(* ">", "/", " ", "x", a one-letter command name) or one indivisible word   *)
(* of the unsupported marker ("tool-", "unsupported", "tool=\"", ...).      *)
(* A network chunk is a run of whole units, so every chunk boundary of the  *)
(* model is a chunk boundary of the program.  Text produced by a nested    *)
(* model call is one unit ("{tool_output}", "{recovery_text}", "{error}").  *)
(***************************************************************************)

\* ------------------------------------------------------------------------
\* Bounds of the model
\* ------------------------------------------------------------------------
MaxSegs == 3
MaxFlush == 2

\* ------------------------------------------------------------------------
\* Python str operations on sequences of units (indices are 1-based; a
\* position 0 stands for Python's -1 / no match)
\* ------------------------------------------------------------------------
SetMin(S) == CHOOSE m \in S : \A o \in S : m <= o
SetMax(S) == CHOOSE m \in S : \A o \in S : m >= o

Lower(c) ==
    CASE c = "A" -> "a"
      [] c = "B" -> "b"
      [] c = "Z" -> "z"
      [] c = "G" -> "g"
      [] OTHER -> c

LowerStr(s) == [i \in 1..Len(s) |-> Lower(s[i])]

IsSpace(c) == c \in {" ", "\n"}

StartsWithAt(s, i, p) ==
    /\ i >= 1
    /\ i + Len(p) - 1 <= Len(s)
    /\ \A k \in 1..Len(p) : s[i + k - 1] = p[k]

StartsWithAtCI(s, i, p) ==
    /\ i >= 1
    /\ i + Len(p) - 1 <= Len(s)
    /\ \A k \in 1..Len(p) : Lower(s[i + k - 1]) = Lower(p[k])

Find(s, p, from) ==
    LET hits == {i \in from..(Len(s) - Len(p) + 1) : StartsWithAt(s, i, p)}
    IN IF hits = {} THEN 0 ELSE SetMin(hits)

FindCI(s, p, from) ==
    LET hits == {i \in from..(Len(s) - Len(p) + 1) : StartsWithAtCI(s, i, p)}
    IN IF hits = {} THEN 0 ELSE SetMin(hits)

Contains(s, p) == Find(s, p, 1) # 0

EndsWith(s, p) ==
    /\ Len(p) <= Len(s)
    /\ SubSeq(s, Len(s) - Len(p) + 1, Len(s)) = p

Prefix(s, n) == SubSeq(s, 1, n)
From(s, i) == SubSeq(s, i, Len(s))

Strip(s) ==
    LET keep == {i \in 1..Len(s) : ~IsSpace(s[i])}
    IN IF keep = {} THEN <<>> ELSE SubSeq(s, SetMin(keep), SetMax(keep))

LStripSlash(s) ==
    LET keep == {i \in 1..Len(s) : s[i] # "/"}
    IN IF keep = {} THEN <<>> ELSE From(s, SetMin(keep))

SkipSpaces(s, i) ==
    LET rest == {j \in i..Len(s) : ~IsSpace(s[j])}
    IN IF rest = {} THEN Len(s) + 1 ELSE SetMin(rest)

\* ------------------------------------------------------------------------
\* Marker syntax
\* ------------------------------------------------------------------------
NoMatch == [ok |-> FALSE, start |-> 0, end |-> 0, g1 |-> <<>>, g2 |-> <<>>]

\* "<tool-unsupported": the literal head of UNSUPPORTED_PATTERN and the
\* unsupported_partial of process_chunk
UNSUPPORTED_PARTIAL == <<"<", "tool-", "unsupported">>

HasQuote(c) == c \in {"\"", "tool=\"", "reason=\""}

NextQuote(s, i) ==
    LET q == {j \in i..Len(s) : HasQuote(s[j])}
    IN IF q = {} THEN 0 ELSE SetMin(q)

\* re: <tool-unsupported\s+tool="([^"]+)"\s+reason="([^"]+)"\s*/?>  IGNORECASE
\* matched at position i
UnsupportedMatchAt(s, i) ==
    LET p1 == i + Len(UNSUPPORTED_PARTIAL)
        s1 == SkipSpaces(s, p1)
        q1 == NextQuote(s, s1 + 1)
        s2 == SkipSpaces(s, q1 + 1)
        q2 == NextQuote(s, s2 + 1)
        s3 == SkipSpaces(s, q2 + 1)
        s4 == IF s3 <= Len(s) /\ s[s3] = "/" THEN s3 + 1 ELSE s3
        ok == /\ StartsWithAtCI(s, i, UNSUPPORTED_PARTIAL)
              /\ s1 > p1 /\ s1 <= Len(s) /\ Lower(s[s1]) = "tool=\""
              /\ q1 > s1 + 1 /\ s[q1] = "\""
              /\ s2 > q1 + 1 /\ s2 <= Len(s) /\ Lower(s[s2]) = "reason=\""
              /\ q2 > s2 + 1 /\ s[q2] = "\""
              /\ s4 <= Len(s) /\ s[s4] = ">"
    IN IF ok
       THEN [ok |-> TRUE, start |-> i, end |-> s4,
             g1 |-> SubSeq(s, s1 + 1, q1 - 1), g2 |-> SubSeq(s, s2 + 1, q2 - 1)]
       ELSE NoMatch

\* UNSUPPORTED_PATTERN.search(s): the leftmost match
UnsupportedSearch(s) ==
    LET hits == {i \in 1..Len(s) : UnsupportedMatchAt(s, i).ok}
    IN IF hits = {} THEN NoMatch ELSE UnsupportedMatchAt(s, SetMin(hits))

OpenTag(cmd) == <<"<">> \o cmd \o <<">">>
CloseTag(cmd) == <<"<", "/">> \o cmd \o <<">">>

\* re: <(cmd1|cmd2|...)>(.*?)</\1>  DOTALL | IGNORECASE, alternative k at i
MarkerAltAt(s, i, cmds, k) ==
    LET open == OpenTag(cmds[k])
        g1 == SubSeq(s, i + 1, i + Len(cmds[k]))
        j == FindCI(s, CloseTag(g1), i + Len(open))
    IN IF StartsWithAtCI(s, i, open) /\ j # 0
       THEN [ok |-> TRUE, start |-> i, end |-> j + Len(cmds[k]) + 2,
             g1 |-> g1, g2 |-> SubSeq(s, i + Len(open), j - 1)]
       ELSE NoMatch

MarkerMatchAt(s, i, cmds) ==
    LET alts == {k \in 1..Len(cmds) : MarkerAltAt(s, i, cmds, k).ok}
    IN IF alts = {} THEN NoMatch ELSE MarkerAltAt(s, i, cmds, SetMin(alts))

\* self._marker_pattern.search(s): the leftmost match
MarkerSearch(s, cmds) ==
    LET hits == {i \in 1..Len(s) : MarkerMatchAt(s, i, cmds).ok}
    IN IF hits = {} THEN NoMatch ELSE MarkerMatchAt(s, SetMin(hits), cmds)

\* ------------------------------------------------------------------------
\* State
\* ------------------------------------------------------------------------
VARIABLES
    tool_prompts,   \* ToolInlineExecutor.tool_prompts: dict in insertion order,
                    \* a sequence of [key, content]
    llm_call_fn,    \* whether a nested-call capability is configured
    executor,       \* the ToolInlineExecutor's fields and the locals of the
                    \* process_chunk call in progress (pc: where it is suspended)
    trace,          \* what the caller and the collaborators have observed
    source,         \* the whole text of the model stream
    stream,         \* the part of it that has not arrived yet
    flushes,        \* number of flush() calls made
    response,       \* the Stage 1 reply handed to parse_tool_selection_response
    parsed,         \* what parse_tool_selection_response has returned for it
    request,        \* a chat completion request: model settings, tools, prompts
    gating,         \* the tool handling of the request and what it has done
    tracker,        \* a ToolJsonTracker, its stream and what it has returned
    daemon          \* the tagging daemon instances, their clock and config row

vars == <<tool_prompts, llm_call_fn, executor, trace, source, stream, flushes,
          response, parsed, request, gating, tracker, daemon>>

\* a tracker that is not in use: ToolJsonTracker.__init__ without commands
NoTracker ==
    [tool_commands |-> {}, buffer |-> <<>>, in_tool_block |-> FALSE,
     current_tool |-> <<>>, source |-> <<>>, stream |-> <<>>, returned |-> <<>>,
     events |-> <<>>, flushed |-> FALSE]

\* no daemon instance has been started
NoDaemon == [started |-> FALSE]

Commands(tp) == [i \in 1..Len(tp) |-> tp[i].key]

\* _build_marker_pattern: None (here the empty sequence) without tool prompts,
\* otherwise the alternation of the keys in dict order
BuildMarkerPattern(tp) == IF Len(tp) = 0 THEN <<>> ELSE Commands(tp)

NoPending ==
    [path |-> "none", start |-> 0, end |-> 0, before |-> <<>>, name |-> <<>>, arg |-> <<>>]

\* no process_chunk call is in progress
NoCall == [buffer |-> <<>>, nested |-> 0, results |-> 0]

\* __init__
FreshExecutor ==
    [buffer |-> <<>>, generated_content |-> <<>>, output |-> <<>>,
     pc |-> "idle", pending |-> NoPending]

FreshTrace ==
    [emitted |-> <<>>,      \* concatenation of the values process_chunk returned
     plain |-> <<>>,        \* the stream text in it (no tool or recovery output)
     origin |-> <<>>,       \* the stream text that has left the buffer: emitted
                            \* as text, consumed as a marker, or flushed
     flushed |-> <<>>,      \* the values flush returned, one per call
     calls |-> <<>>,        \* _execute_tool invocations: <<command, context>>
     tool_results |-> <<>>, \* what they returned: <<outcome, text>>
     recoveries |-> <<>>,   \* _handle_unsupported_tool invocations: <<tool, reason>>
     recovery_results |-> <<>>, \* what they returned: <<outcome, text>>
     events |-> <<>>,       \* events handed to the event sink: <<type, tool>>
     nested |-> <<>>,       \* nested model calls: <<kind, tool content, user text>>
     several |-> FALSE,     \* the stream has arrived in more than one chunk
     sink |-> "delivers",   \* what the event sink does with an event
     sink_raised |-> FALSE, \* the event sink has raised on some emission
     call |-> NoCall]       \* the process_chunk call in progress, at its entry

Fresh == [e |-> FreshExecutor, t |-> FreshTrace]

\* ------------------------------------------------------------------------
\* Text the executor produces itself
\* ------------------------------------------------------------------------
ToolOutputText == <<"\n", "{tool_output}", "\n">>
ToolNotFoundText(command) == <<"\n<!-- Tool '">> \o command \o <<"' not found -->\n">>
ToolNoLLMText(command) == <<"\n<!-- No LLM function for tool '">> \o command \o <<"' -->\n">>
ToolErrorText == <<"\n<!-- Tool error: ", "{error}", " -->\n">>
ToolExceptionText == <<"\n<!-- Tool exception: ", "{e}", " -->\n">>
\* the fixed fragment of line 390 (its Korean wording rendered in English)
RecoveryNoLLMText(reason) == <<"\n\n(cannot generate the visualization: ">> \o reason \o <<")\n\n">>
RecoveryOutputText == <<" ", "{recovery_text}">>

RecoveryWindow == 1000

Outcomes == {"success", "failure", "raise"}

\* the event sink accepts the event or raises
Sinks == {"delivers", "raises"}

\* mutant: _emit_event has no try/except; the exception of the sink leaves
\* process_chunk, whose local output is lost
EmitEvent_Propagates(st, type, tool) ==
    IF st.t.sink = "raises"
    THEN [st EXCEPT !.t.events = Append(@, <<type, tool>>),
                    !.t.sink_raised = TRUE,
                    !.e.output = <<>>]
    ELSE [st EXCEPT !.t.events = Append(@, <<type, tool>>)]

\* _emit_event with an event sink configured: the event is handed to the sink
\* and an exception of the sink is caught and logged
EmitEvent(st, type, tool) ==
    [st EXCEPT !.t.events = Append(@, <<type, tool>>),
               !.t.sink_raised = @ \/ st.t.sink = "raises"]

\* return of process_chunk
ReturnChunk(st, out) ==
    [st EXCEPT !.e.pc = "idle", !.e.output = <<>>, !.e.pending = NoPending,
               !.t.emitted = @ \o out, !.t.call = NoCall]

\* output += text_before ; generated_content += text_before
EmitBefore(st, text) ==
    [st EXCEPT !.e.output = @ \o text, !.e.generated_content = @ \o text,
               !.t.plain = @ \o text, !.t.origin = @ \o text]

\* ------------------------------------------------------------------------
\* _find_tool_prompt
\* ------------------------------------------------------------------------
Normalize(command) ==
    LStripSlash([i \in 1..Len(command) |->
                    IF Lower(command[i]) = "_" THEN "-" ELSE Lower(command[i])])

FindToolPrompt(tp, command) ==
    LET normalized == Normalize(command)
        direct == {i \in 1..Len(tp) : tp[i].key = normalized}
        fuzzy == {i \in 1..Len(tp) :
                     \/ Contains(Normalize(tp[i].key), normalized)
                     \/ Contains(normalized, Normalize(tp[i].key))}
    IN IF direct # {} THEN tp[SetMin(direct)].content
       ELSE IF fuzzy # {} THEN tp[SetMin(fuzzy)].content
       ELSE <<>>

\* ------------------------------------------------------------------------
\* _execute_tool
\* ------------------------------------------------------------------------
\* mutant: the tool result is put in front of the output collected so far
AfterTool_ResultFirst(st, outcome, result) ==
    [st EXCEPT !.e.output = result \o @,
               !.e.generated_content = @ \o result,
               !.e.buffer = From(@, st.e.pending.end + 1),
               !.e.pending = NoPending,
               !.e.pc = "loop",
               !.t.tool_results = Append(@, <<outcome, result>>),
               !.t.origin = @ \o SubSeq(st.e.buffer, st.e.pending.start, st.e.pending.end)]

\* process_chunk lines 183-188, after _execute_tool has returned `result`
AfterTool(st, outcome, result) ==
    [st EXCEPT !.e.output = @ \o result,
               !.e.generated_content = @ \o result,
               !.e.buffer = From(@, st.e.pending.end + 1),
               !.e.pending = NoPending,
               !.e.pc = "loop",
               !.t.tool_results = Append(@, <<outcome, result>>),
               !.t.origin = @ \o SubSeq(st.e.buffer, st.e.pending.start, st.e.pending.end)]

\* _execute_tool up to its nested call (lines 276-310); m is the marker match
ExecuteTool(st, m) ==
    LET command == m.g1
        context == Strip(m.g2)
        s1 == [EmitEvent(st, "tool_executing", command)
                 EXCEPT !.t.calls = Append(@, <<command, context>>),
                        !.e.pending = [path |-> "loop", start |-> m.start, end |-> m.end,
                                       before |-> <<>>, name |-> command,
                                       arg |-> context]]
        tool_prompt == FindToolPrompt(tool_prompts, command)
    IN IF tool_prompt = <<>>
       THEN AfterTool(EmitEvent(s1, "tool_completed", command),
                      "not_found", ToolNotFoundText(command))
       ELSE IF ~llm_call_fn
       THEN AfterTool(EmitEvent(s1, "tool_completed", command),
                      "no_llm", ToolNoLLMText(command))
       ELSE [s1 EXCEPT !.e.pc = "await_tool",
                       !.t.nested = Append(@, <<"tool", tool_prompt, context>>)]

\* mutant: no tool_completed event is emitted when the nested call raises
ToolReturned_SilentOnException(st, outcome) ==
    CASE outcome = "success" ->
            AfterTool(EmitEvent(st, "tool_completed", st.e.pending.name), outcome,
                      ToolOutputText)
      [] outcome = "failure" ->
            AfterTool(EmitEvent(st, "tool_completed", st.e.pending.name), outcome,
                      ToolErrorText)
      [] OTHER -> AfterTool(st, outcome, ToolExceptionText)

\* mutant: an exception of the nested call is not caught and ends process_chunk
ToolReturned_Raises(st, outcome) ==
    LET done == EmitEvent(st, "tool_completed", st.e.pending.name)
    IN IF outcome = "raise"
       THEN [st EXCEPT !.e.pc = "raised"]
       ELSE AfterTool(done, outcome,
                      CASE outcome = "success" -> ToolOutputText
                        [] OTHER -> ToolErrorText)

\* mutant: the marker of a tool that has run stays in the buffer
ToolReturned_KeepsMarker(st, outcome) ==
    LET done == EmitEvent(st, "tool_completed", st.e.pending.name)
        after == AfterTool(done, outcome,
                           CASE outcome = "success" -> ToolOutputText
                             [] outcome = "failure" -> ToolErrorText
                             [] OTHER -> ToolExceptionText)
    IN [after EXCEPT !.e.buffer = st.e.buffer]

\* _execute_tool from the return of its nested call (lines 312-326)
ToolReturned(st, outcome) ==
    LET done == EmitEvent(st, "tool_completed", st.e.pending.name)
    IN AfterTool(done, outcome,
                 CASE outcome = "success" -> ToolOutputText
                   [] outcome = "failure" -> ToolErrorText
                   [] OTHER -> ToolExceptionText)

\* ------------------------------------------------------------------------
\* _handle_unsupported_tool
\* ------------------------------------------------------------------------
\* mutant: process_chunk returns after a recovery instead of scanning on
AfterRecovery_Returns(st, outcome, recovery_text) ==
    LET marker == SubSeq(st.e.buffer, st.e.pending.start, st.e.pending.end)
        s1 == [st EXCEPT !.t.recovery_results = Append(@, <<outcome, recovery_text>>)]
    IN IF st.e.pending.path = "loop"
       THEN ReturnChunk([s1 EXCEPT !.e.generated_content = @ \o recovery_text,
                                   !.e.buffer = From(@, st.e.pending.end + 1),
                                   !.t.origin = @ \o marker],
                        s1.e.output \o recovery_text)
       ELSE LET output == st.e.pending.before \o recovery_text
            IN ReturnChunk([s1 EXCEPT !.e.buffer = <<>>,
                                      !.e.generated_content = @ \o output,
                                      !.t.plain = @ \o st.e.pending.before,
                                      !.t.origin = @ \o st.e.pending.before \o marker],
                           output)

\* the caller's code after _handle_unsupported_tool has returned recovery_text:
\* process_chunk lines 155-161 in the loop, and lines 366, 116-120 on the path
\* without a marker pattern
AfterRecovery(st, outcome, recovery_text) ==
    LET marker == SubSeq(st.e.buffer, st.e.pending.start, st.e.pending.end)
        s1 == [st EXCEPT !.t.recovery_results = Append(@, <<outcome, recovery_text>>)]
    IN IF st.e.pending.path = "loop"
       THEN [s1 EXCEPT !.e.output = @ \o recovery_text,
                       !.e.generated_content = @ \o recovery_text,
                       !.e.buffer = From(@, st.e.pending.end + 1),
                       !.e.pending = NoPending,
                       !.e.pc = "loop",
                       !.t.origin = @ \o marker]
       ELSE LET output == st.e.pending.before \o recovery_text
            IN ReturnChunk([s1 EXCEPT !.e.buffer = <<>>,
                                      !.e.generated_content = @ \o output,
                                      !.t.plain = @ \o st.e.pending.before,
                                      !.t.origin = @ \o st.e.pending.before \o marker],
                           output)

ContextPreview(generated) ==
    IF Len(generated) > RecoveryWindow
    THEN From(generated, Len(generated) - RecoveryWindow + 1)
    ELSE generated

\* _handle_unsupported_tool up to its nested call (lines 383-420); um is the
\* match of the unsupported marker, path the caller
HandleUnsupportedTool(st, um, path) ==
    LET tool_name == um.g1
        reason == um.g2
        s1 == [EmitEvent(st, "tool_recovery", tool_name)
                 EXCEPT !.t.recoveries = Append(@, <<tool_name, reason>>),
                        !.e.pending = [path |-> path, start |-> um.start, end |-> um.end,
                                       before |-> Prefix(st.e.buffer, um.start - 1),
                                       name |-> tool_name, arg |-> reason]]
    IN IF ~llm_call_fn
       THEN AfterRecovery(s1, "no_llm", RecoveryNoLLMText(reason))
       ELSE [s1 EXCEPT !.e.pc = "await_recovery",
                       !.t.nested = Append(@, <<"recovery", <<>>,
                                               ContextPreview(st.e.generated_content)>>)]

\* mutant: tool_recovery_completed is emitted whatever the nested call returns
RecoveryReturned_AlwaysCompleted(st, outcome) ==
    AfterRecovery(EmitEvent(st, "tool_recovery_completed", st.e.pending.name), outcome,
                  IF outcome = "success" THEN RecoveryOutputText ELSE <<>>)

\* mutant: a failed recovery call contributes an error comment, as a tool does
RecoveryReturned_ErrorText(st, outcome) ==
    IF outcome = "success"
    THEN AfterRecovery(EmitEvent(st, "tool_recovery_completed", st.e.pending.name),
                       outcome, RecoveryOutputText)
    ELSE AfterRecovery(st, outcome, ToolErrorText)

\* _handle_unsupported_tool from the return of its nested call (lines 422-435)
RecoveryReturned(st, outcome) ==
    IF outcome = "success"
    THEN AfterRecovery(EmitEvent(st, "tool_recovery_completed", st.e.pending.name),
                       outcome, RecoveryOutputText)
    ELSE AfterRecovery(st, outcome, <<>>)

\* ------------------------------------------------------------------------
\* process_chunk
\* ------------------------------------------------------------------------
\* lines 192-222: the position from which an opened, not yet closed marker
\* starts in the buffer (0: none)
InMarkerPos(buf, cmds) ==
    LET open_without_close(cmd) ==
            LET open_pos == Find(buf, OpenTag(cmd), 1)
            IN /\ open_pos # 0
               /\ Find(buf, CloseTag(cmd), open_pos + Len(OpenTag(cmd))) = 0
        opened == {k \in 1..Len(cmds) : open_without_close(cmds[k])}
        marker_start_pos ==
            IF opened = {} THEN 0 ELSE Find(buf, OpenTag(cmds[SetMin(opened)]), 1)
        unsupported_pos == Find(buf, UNSUPPORTED_PARTIAL, 1)
        partial_unsupported ==
            /\ unsupported_pos # 0
            /\ Find(buf, <<"/", ">">>, unsupported_pos) = 0
    IN IF partial_unsupported /\ (opened = {} \/ unsupported_pos < marker_start_pos)
       THEN unsupported_pos
       ELSE marker_start_pos

\* mutant: the partial-tag scan starts at two units, range(2, len(open_tag))
PartialTailLength_FromTwo(buf, cmds) ==
    LET lengths(tag) == {i \in 2..(Len(tag) - 1) : EndsWith(buf, Prefix(tag, i))}
        with_partial == {k \in 1..Len(cmds) : lengths(OpenTag(cmds[k])) # {}}
    IN IF with_partial # {}
       THEN SetMin(lengths(OpenTag(cmds[SetMin(with_partial)])))
       ELSE IF lengths(UNSUPPORTED_PARTIAL) # {}
       THEN SetMin(lengths(UNSUPPORTED_PARTIAL))
       ELSE 0

\* mutant: the partial-tag scan tests `open_tag[:i] in buffer` instead of endswith
PartialTailLength_Anywhere(buf, cmds) ==
    LET lengths(tag) == {i \in 1..(Len(tag) - 1) : Contains(buf, Prefix(tag, i))}
        with_partial == {k \in 1..Len(cmds) : lengths(OpenTag(cmds[k])) # {}}
    IN IF with_partial # {}
       THEN SetMin(lengths(OpenTag(cmds[SetMin(with_partial)])))
       ELSE IF lengths(UNSUPPORTED_PARTIAL) # {}
       THEN SetMin(lengths(UNSUPPORTED_PARTIAL))
       ELSE 0

\* lines 233-260: the length of the tail of the buffer that is a proper prefix
\* of an opening tag (0: none)
PartialTailLength(buf, cmds) ==
    LET lengths(tag) == {i \in 1..(Len(tag) - 1) : EndsWith(buf, Prefix(tag, i))}
        with_partial == {k \in 1..Len(cmds) : lengths(OpenTag(cmds[k])) # {}}
    IN IF with_partial # {}
       THEN SetMin(lengths(OpenTag(cmds[SetMin(with_partial)])))
       ELSE IF lengths(UNSUPPORTED_PARTIAL) # {}
       THEN SetMin(lengths(UNSUPPORTED_PARTIAL))
       ELSE 0

\* mutant: the text before a retained tail is not output
NoCompleteMarker_ForgetsTextBefore(st) ==
    LET buf == st.e.buffer
        cmds == Commands(tool_prompts)
        pos == InMarkerPos(buf, cmds)
        i == PartialTailLength(buf, cmds)
        keep == IF pos # 0 THEN From(buf, pos)
                ELSE IF i # 0 THEN From(buf, Len(buf) - i + 1)
                ELSE <<>>
        emit == IF keep = <<>> THEN buf ELSE <<>>
        s1 == [EmitBefore(st, emit) EXCEPT !.e.buffer = keep]
    IN ReturnChunk(s1, s1.e.output)

\* mutant: the retained tail is put out as well as kept
NoCompleteMarker_DuplicatesTail(st) ==
    LET buf == st.e.buffer
        cmds == Commands(tool_prompts)
        pos == InMarkerPos(buf, cmds)
        i == PartialTailLength(buf, cmds)
        keep == IF pos # 0 THEN From(buf, pos)
                ELSE IF i # 0 THEN From(buf, Len(buf) - i + 1)
                ELSE <<>>
        s1 == [EmitBefore(st, buf) EXCEPT !.e.buffer = keep]
    IN ReturnChunk(s1, s1.e.output)

\* lines 189-268: no complete marker in the buffer
NoCompleteMarker(st) ==
    LET buf == st.e.buffer
        cmds == Commands(tool_prompts)
        pos == InMarkerPos(buf, cmds)
        i == PartialTailLength(buf, cmds)
        keep == IF pos # 0 THEN From(buf, pos)
                ELSE IF i # 0 THEN From(buf, Len(buf) - i + 1)
                ELSE <<>>
        emit == Prefix(buf, Len(buf) - Len(keep))
        s1 == [EmitBefore(st, emit) EXCEPT !.e.buffer = keep]
    IN ReturnChunk(s1, s1.e.output)

\* lines 129-268: one iteration of the while loop, up to a nested call
ScanStep(st) ==
    LET unsupported_match == UnsupportedSearch(st.e.buffer)
        match == MarkerSearch(st.e.buffer, BuildMarkerPattern(tool_prompts))
    IN IF unsupported_match.ok /\ (~match.ok \/ unsupported_match.start < match.start)
       THEN HandleUnsupportedTool(
                EmitBefore(st, Prefix(st.e.buffer, unsupported_match.start - 1)),
                unsupported_match, "loop")
       ELSE IF match.ok
       THEN ExecuteTool(EmitBefore(st, Prefix(st.e.buffer, match.start - 1)), match)
       ELSE NoCompleteMarker(st)

\* the while loop runs until process_chunk returns or awaits a nested call
RECURSIVE RunLoop(_)
RunLoop(st) == IF st.e.pc = "loop" THEN RunLoop(ScanStep(st)) ELSE st

\* lines 112-124: process_chunk without a marker pattern
ProcessWithoutPattern(st, chunk) ==
    LET s1 == [st EXCEPT !.e.buffer = @ \o chunk]
        match == UnsupportedSearch(s1.e.buffer)
    IN IF match.ok
       THEN HandleUnsupportedTool(s1, match, "direct")
       ELSE ReturnChunk([s1 EXCEPT !.e.generated_content = @ \o chunk,
                                   !.e.buffer = <<>>,
                                   !.t.plain = @ \o chunk,
                                   !.t.origin = @ \o chunk],
                        chunk)

\* the number of places of a text where a complete marker starts
CompleteMarkers(text) ==
    Cardinality({i \in 1..Len(text) :
                    \/ UnsupportedMatchAt(text, i).ok
                    \/ MarkerMatchAt(text, i, BuildMarkerPattern(tool_prompts)).ok})

\* process_chunk from its call to its return or its first nested call
ProcessChunkCall(st, chunk) ==
    LET entered ==
            [st EXCEPT !.t.call = [buffer |-> st.e.buffer \o chunk,
                                   nested |-> Len(st.t.nested),
                                   results |-> Len(st.t.tool_results)
                                                 + Len(st.t.recovery_results)]]
    IN IF BuildMarkerPattern(tool_prompts) = <<>>
       THEN ProcessWithoutPattern(entered, chunk)
       ELSE RunLoop([entered EXCEPT !.e.buffer = @ \o chunk, !.e.output = <<>>,
                                    !.e.pc = "loop"])

\* process_chunk from the return of a nested call on
NestedCallReturned(st, outcome) ==
    IF st.e.pc = "await_tool"
    THEN RunLoop(ToolReturned(st, outcome))
    ELSE RunLoop(RecoveryReturned(st, outcome))

\* mutant: flush returns the buffer without clearing it
FlushCall_KeepsBuffer(st) ==
    [st EXCEPT !.t.flushed = Append(@, st.e.buffer),
               !.t.origin = @ \o st.e.buffer]

\* flush
FlushCall(st) ==
    LET remaining == st.e.buffer
    IN [st EXCEPT !.e.buffer = <<>>,
                  !.t.flushed = Append(@, remaining),
                  !.t.origin = @ \o remaining]

\* ------------------------------------------------------------------------
\* Inputs: tool sets and stream texts
\* ------------------------------------------------------------------------
CmdA == <<"A">>
CmdB == <<"B">>

\* a complete <tool-unsupported tool="g" reason="r"/>
UnsupportedMarker ==
    <<"<", "tool-", "unsupported", " ", "tool=\"", "g", "\"", " ",
      "reason=\"", "r", "\"", "/", ">">>

ToolSets ==
    { <<>>,
      << [key |-> CmdA, content |-> <<"{content of A}">>] >>,
      << [key |-> CmdB, content |-> <<>>],
         [key |-> CmdA, content |-> <<"{content of A}">>] >> }

Vocabulary ==
    { <<"x">>, <<"<">>, OpenTag(CmdA), CloseTag(CmdA), OpenTag(CmdB), CloseTag(CmdB) }

\* what precedes and what follows an unsupported marker
Before == { <<>>, <<"x">>, OpenTag(CmdA) }
After == { <<>>, <<"x">>, CloseTag(CmdA), OpenTag(CmdA) \o <<"x">> \o CloseTag(CmdA) }

RECURSIVE Concats(_, _)
Concats(V, n) ==
    IF n = 0 THEN { <<>> }
    ELSE LET shorter == Concats(V, n - 1)
         IN shorter \cup { a \o b : a \in shorter, b \in V }

\* a marker whose tag differs from the key A in letter case only: <a>x</a>
CaseMarker == OpenTag(<<"a">>) \o <<"x">> \o CloseTag(<<"a">>)

CaseInputs == { pre \o CaseMarker \o post : pre, post \in { <<>>, <<"x">> } }

Inputs ==
    Concats(Vocabulary, MaxSegs)
    \cup { pre \o UnsupportedMarker \o post : pre \in Before, post \in After }
    \cup CaseInputs

\* the stream texts fed to the executor when its event sink is chosen
SinkInputs ==
    { pre \o UnsupportedMarker \o post : pre \in Before, post \in After }
    \cup { OpenTag(CmdA) \o CloseTag(CmdA) \o <<"x">>,
           OpenTag(CmdA) \o CloseTag(CmdA) \o OpenTag(CmdB) \o CloseTag(CmdB),
           <<"x">> \o OpenTag(CmdA) \o CloseTag(CmdA),
           OpenTag(CmdB) \o <<"x">> \o CloseTag(CmdB) }

\* two tools of which one key is part of the other, and a marker of the second
DriftToolSet ==
    << [key |-> CmdA, content |-> <<"{content of A}">>],
       [key |-> <<"A", "-", "Z">>, content |-> <<"{content of A-Z}">>] >>

DriftMarker == OpenTag(<<"A", "-", "Z">>) \o <<"x">> \o CloseTag(<<"A", "-", "Z">>)

DriftInputs == { DriftMarker, <<"x">> \o DriftMarker \o <<"x">> }

\* ------------------------------------------------------------------------
\* The streaming of one response through one executor
\* ------------------------------------------------------------------------
\* no call of parse_tool_selection_response has been made
NotParsed == [how |-> "not called"]

\* no chat completion request is being handled
NoRequest == [entry |-> "none"]

NoGating == [pc |-> "none"]

St == [e |-> executor, t |-> trace]

Become(st) == executor' = st.e /\ trace' = st.t

Init ==
    /\ \/ tool_prompts \in ToolSets /\ source \in Inputs /\ trace = FreshTrace
       \/ tool_prompts = DriftToolSet /\ source \in DriftInputs /\ trace = FreshTrace
    /\ llm_call_fn \in BOOLEAN
    /\ stream = source
    /\ executor = FreshExecutor
    /\ flushes = 0
    /\ response = <<>>
    /\ parsed = NotParsed
    /\ request = NoRequest
    /\ gating = NoGating
    /\ tracker = NoTracker
    /\ daemon = NoDaemon

\* the caller hands the next chunk of the stream to process_chunk
ProcessChunk(n) ==
    /\ executor.pc = "idle"
    /\ flushes = 0
    /\ n \in 1..Len(stream)
    /\ Become(ProcessChunkCall([St EXCEPT !.t.several = (stream # source)],
                                Prefix(stream, n)))
    /\ stream' = From(stream, n + 1)
    /\ UNCHANGED <<tool_prompts, llm_call_fn, source, flushes, response, parsed,
                   request, gating, tracker, daemon>>

\* the nested model call returns, reports a failure or raises
NestedReturn(outcome) ==
    /\ executor.pc \in {"await_tool", "await_recovery"}
    /\ Become(NestedCallReturned(St, outcome))
    /\ UNCHANGED <<tool_prompts, llm_call_fn, source, stream, flushes, response, parsed,
                   request, gating, tracker, daemon>>

\* the caller calls flush when the stream has ended
Flush ==
    /\ executor.pc = "idle"
    /\ stream = <<>>
    /\ flushes < MaxFlush
    /\ Become(FlushCall(St))
    /\ flushes' = flushes + 1
    /\ UNCHANGED <<tool_prompts, llm_call_fn, source, stream, response, parsed,
                   request, gating, tracker, daemon>>

Next ==
    \/ \E n \in 1..Len(stream) : ProcessChunk(n)
    \/ \E outcome \in Outcomes : NestedReturn(outcome)
    \/ Flush

Spec == Init /\ [][Next]_vars

(* The same executor with an event sink of either kind: tool_inline_executor.py
   hands every event to the on_event callable it was constructed with, and the
   caller chooses that callable. *)
InitSink ==
    /\ tool_prompts \in ToolSets
    /\ source \in SinkInputs
    /\ \E sink \in Sinks : trace = [FreshTrace EXCEPT !.sink = sink]
    /\ llm_call_fn \in BOOLEAN
    /\ stream = source
    /\ executor = FreshExecutor
    /\ flushes = 0
    /\ response = <<>>
    /\ parsed = NotParsed
    /\ request = NoRequest
    /\ gating = NoGating
    /\ tracker = NoTracker
    /\ daemon = NoDaemon

SpecSink == InitSink /\ [][Next]_vars

\* ------------------------------------------------------------------------
\* parse_tool_selection_response (tool_gating.py)
\*
\* A reply is a sequence of tokens: the code fence, the word json, white
\* space, the JSON punctuation, JSON string literals (written with their
\* quotes), numbers, null/true/false, and words of prose.  String literals
\* hold no brace.
\* ------------------------------------------------------------------------
\* the code fence of three backquotes, one unit
Fence == "[fence]"

StringLits ==
    {"\"need_tools\"", "\"answer\"", "\"a\"", "\"b\"", "\"y\"", "\"\"", "\"/a\"", "\"A\""}

Numbers == {"1", "5"}

\* the content of a string literal
Unquote(lit) ==
    CASE lit = "\"need_tools\"" -> "need_tools"
      [] lit = "\"answer\"" -> "answer"
      [] lit = "\"a\"" -> "a"
      [] lit = "\"b\"" -> "b"
      [] lit = "\"y\"" -> "y"
      [] lit = "\"/a\"" -> "/a"
      [] lit = "\"A\"" -> "A"
      [] OTHER -> ""

\* the content of a string literal as the sequence of its units
UnquoteUnits(lit) ==
    CASE lit = "\"\"" -> <<>>
      [] lit = "\"/a\"" -> <<"/", "a">>
      [] OTHER -> <<Unquote(lit)>>

\* Python values: type and content (a str is the sequence of its units)
JStr(text) == [type |-> "str", val |-> text]
JNum(n) == [type |-> "num", val |-> <<n>>]
JBool(b) == [type |-> "bool", val |-> <<b>>]
JNone == [type |-> "none", val |-> <<>>]
JList(items) == [type |-> "list", val |-> items]
JDict(members) == [type |-> "dict", val |-> members]

JsonFail == [ok |-> FALSE, next |-> 0, v |-> JNone]

JsonOk(next, v) == [ok |-> TRUE, next |-> next, v |-> v]

RECURSIVE JsonValue(_, _), JsonItems(_, _, _), JsonMembers(_, _, _)

\* json.loads, a value at position i
JsonValue(s, i) ==
    LET j == SkipSpaces(s, i)
    IN IF j > Len(s) THEN JsonFail
       ELSE CASE s[j] \in StringLits ->
                    JsonOk(j + 1, JStr(UnquoteUnits(s[j])))
              [] s[j] \in Numbers -> JsonOk(j + 1, JNum(s[j]))
              [] s[j] = "null" -> JsonOk(j + 1, JNone)
              [] s[j] \in {"true", "false"} -> JsonOk(j + 1, JBool(s[j]))
              [] s[j] = "[" ->
                    LET k == SkipSpaces(s, j + 1)
                    IN IF k <= Len(s) /\ s[k] = "]"
                       THEN JsonOk(k + 1, JList(<<>>))
                       ELSE JsonItems(s, j + 1, <<>>)
              [] s[j] = "{" ->
                    LET k == SkipSpaces(s, j + 1)
                    IN IF k <= Len(s) /\ s[k] = "}"
                       THEN JsonOk(k + 1, JDict(<<>>))
                       ELSE JsonMembers(s, j + 1, <<>>)
              [] OTHER -> JsonFail

JsonItems(s, i, acc) ==
    LET r == JsonValue(s, i)
        k == SkipSpaces(s, r.next)
    IN IF ~r.ok \/ k > Len(s) THEN JsonFail
       ELSE IF s[k] = "," THEN JsonItems(s, k + 1, Append(acc, r.v))
       ELSE IF s[k] = "]" THEN JsonOk(k + 1, JList(Append(acc, r.v)))
       ELSE JsonFail

JsonMembers(s, i, acc) ==
    LET j == SkipSpaces(s, i)
        c == SkipSpaces(s, j + 1)
    IN IF j > Len(s) \/ c > Len(s) THEN JsonFail
       ELSE IF s[j] \notin StringLits \/ s[c] # ":" THEN JsonFail
       ELSE LET r == JsonValue(s, c + 1)
                k == SkipSpaces(s, r.next)
                member == <<Unquote(s[j]), r.v>>
            IN IF ~r.ok \/ k > Len(s) THEN JsonFail
               ELSE IF s[k] = "," THEN JsonMembers(s, k + 1, Append(acc, member))
               ELSE IF s[k] = "}" THEN JsonOk(k + 1, JDict(Append(acc, member)))
               ELSE JsonFail

\* json.loads(text): one value, then nothing but white space
JsonLoads(s) ==
    LET r == JsonValue(s, 1)
    IN IF r.ok /\ SkipSpaces(s, r.next) = Len(s) + 1 THEN r ELSE JsonFail

\* dict.get(key, default): the last member of that name wins
DictGet(data, key, default) ==
    LET at == {k \in 1..Len(data.val) : data.val[k][1] = key}
    IN IF at = {} THEN default ELSE data.val[SetMax(at)][2]

\* line 102: the opening fence, an optional json and the white space after it
\* are removed from a text that starts with a fence
RemoveFenceStart(s) ==
    LET i == IF Len(s) >= 2 /\ s[2] = "json" THEN 3 ELSE 2
    IN From(s, SkipSpaces(s, i))

\* line 103: a closing fence at the end and the white space before it are removed
RemoveFenceEnd(s) ==
    IF s # <<>> /\ s[Len(s)] = Fence
    THEN LET keep == {i \in 1..(Len(s) - 1) : ~IsSpace(s[i])}
         IN IF keep = {} THEN <<>> ELSE Prefix(s, SetMax(keep))
    ELSE s

\* a run of units other than braces from position i: the position of the next brace
BraceFrom(s, i) ==
    LET braces == {j \in i..Len(s) : s[j] \in {"{", "}"}}
    IN IF braces = {} THEN Len(s) + 1 ELSE SetMin(braces)

RECURSIVE ObjectGroups(_, _)

\* the rest of the pattern of line 106 at a brace at position p: any number of
\* inner brace pairs, then the closing brace; where the match ends, or 0
ObjectGroups(s, p) ==
    IF p > Len(s) THEN 0
    ELSE IF s[p] = "}" THEN p
    ELSE LET q == BraceFrom(s, p + 1)
         IN IF q <= Len(s) /\ s[q] = "}" THEN ObjectGroups(s, BraceFrom(s, q + 1)) ELSE 0

\* re.search of line 106: the leftmost brace pair, with inner pairs one level deep
ObjectSearch(s) ==
    LET EndAt(i) == IF s[i] = "{" THEN ObjectGroups(s, BraceFrom(s, i + 1)) ELSE 0
        starts == {i \in 1..Len(s) : EndAt(i) > 0}
    IN IF starts = {} THEN [ok |-> FALSE, start |-> 0, end |-> 0]
       ELSE [ok |-> TRUE, start |-> SetMin(starts), end |-> EndAt(SetMin(starts))]

\* the text the search runs on (lines 98-103)
JsonStr(text) ==
    IF StartsWithAt(Strip(text), 1, <<Fence>>)
    THEN RemoveFenceEnd(RemoveFenceStart(Strip(text)))
    ELSE Strip(text)

Returned(path, tools, answer) ==
    [how |-> "returned", path |-> path, tools |-> tools, answer |-> answer]

\* mutant: the fallback answer is the stripped and unfenced text
ParseToolSelectionResponse_ReturnsJsonStr(text) ==
    LET m == ObjectSearch(JsonStr(text))
        data == JsonLoads(SubSeq(JsonStr(text), m.start, m.end))
    IN IF m.ok /\ data.ok
       THEN Returned("parsed", DictGet(data.v, "need_tools", JList(<<>>)),
                     DictGet(data.v, "answer", JNone))
       ELSE Returned("no_match", JList(<<>>), JStr(JsonStr(text)))

\* parse_tool_selection_response
ParseToolSelectionResponse(text) ==
    LET m == ObjectSearch(JsonStr(text))
        data == JsonLoads(SubSeq(JsonStr(text), m.start, m.end))
        tools == DictGet(data.v, "need_tools", JList(<<>>))
        answer == DictGet(data.v, "answer", JNone)
    IN IF ~m.ok THEN Returned("no_match", JList(<<>>), JStr(text))
       ELSE IF ~data.ok THEN Returned("decode_error", JList(<<>>), JStr(text))
       ELSE IF tools.type = "str"
            THEN Returned("parsed",
                          IF tools.val # <<>> THEN JList(<<tools>>) ELSE JList(<<>>),
                          answer)
            ELSE Returned("parsed", tools, answer)

\* replies
Object(members) == <<"{">> \o members \o <<"}">>

NeedTools(value) == <<"\"need_tools\"", ":", " ">> \o value

Answer == <<"\"answer\"", ":", " ", "\"y\"">>

Bodies ==
    { <<>>,
      <<"text">>,
      <<"[", "1", "]">>,
      Object(<<>>),
      Object(<<"bad">>),
      Object(NeedTools(<<"[", "]">>)),
      Object(NeedTools(<<"[", "\"a\"", "]">>)),
      Object(NeedTools(<<"[", "\"a\"", ",", " ", "\"b\"", "]">>)),
      Object(NeedTools(<<"\"a\"">>)),
      Object(NeedTools(<<"\"\"">>)),
      Object(NeedTools(<<"5">>)),
      Object(NeedTools(<<"null">>)),
      Object(NeedTools(<<"true">>)),
      Object(NeedTools(Object(<<"\"b\"", ":", "1">>))),
      Object(Answer),
      Object(NeedTools(<<"[", "\"a\"", "]">>) \o <<",", " ">> \o Answer),
      Object(NeedTools(<<"[", "]">>) \o <<",", " ">> \o Answer),
      Object(NeedTools(<<"[", "\"a\"", "]">>) \o <<",">>),
      Object(<<"\"a\"", ":">> \o Object(<<"\"b\"", ":">> \o Object(<<"\"y\"", ":", "1">>))),
      <<"{">> \o NeedTools(<<"[", "\"a\"", "]">>) }

Around == {<<>>, <<"text", " ">>}

Margins == {<<>>, <<"\n">>}

FenceStarts == {<<>>, <<Fence, "json", "\n">>, <<Fence, "\n">>, <<Fence>>}

FenceEnds == {<<>>, <<"\n", Fence>>}

NotJsonAtAll == <<"not", " ", "json", " ", "at", " ", "all">>

Responses ==
    {NotJsonAtAll} \cup
    { lead \o open \o pre \o body \o post \o close \o trail :
        lead \in Margins, open \in FenceStarts, pre \in Around, body \in Bodies,
        post \in {<<>>, <<" ", "text">>}, close \in FenceEnds, trail \in Margins }

InitParse ==
    /\ tool_prompts = <<>>
    /\ llm_call_fn = FALSE
    /\ source = <<>>
    /\ stream = <<>>
    /\ executor = FreshExecutor
    /\ trace = FreshTrace
    /\ flushes = 0
    /\ response \in Responses
    /\ parsed = NotParsed
    /\ request = NoRequest
    /\ gating = NoGating
    /\ tracker = NoTracker
    /\ daemon = NoDaemon

\* Stage 1 has replied and the reply is parsed
ParseSelection ==
    /\ parsed.how = "not called"
    /\ parsed' = ParseToolSelectionResponse(response)
    /\ UNCHANGED <<tool_prompts, llm_call_fn, executor, trace, source, stream, flushes,
                   response, request, gating, tracker, daemon>>

NextParse == ParseSelection

SpecParse == InitParse /\ [][NextParse]_vars

\* ------------------------------------------------------------------------
\* Tool catalog, filtering and Stage 2 composition (tool_gating.py)
\*
\* A tool prompt is [command, description, content, tool_priority]; the three
\* texts are sequences of units and tool_priority is <<>> (None) or <<n>>.
\* ------------------------------------------------------------------------
\* bool(value)
Truthy(value) ==
    CASE value.type = "none" -> FALSE
      [] value.type = "bool" -> value.val[1] = "true"
      [] value.type = "num" -> value.val[1] # "0"
      [] OTHER -> Len(value.val) > 0

\* the units of a dict key
KeyUnits(key) ==
    CASE key = "" -> <<>>
      [] key = "/a" -> <<"/", "a">>
      [] OTHER -> <<key>>

\* for cmd in selected_commands: the items, or a TypeError
Iterate(value) ==
    CASE value.type = "list" -> [ok |-> TRUE, items |-> value.val]
      [] value.type = "dict" ->
            [ok |-> TRUE,
             items |-> [k \in 1..Len(value.val) |-> JStr(KeyUnits(value.val[k][1]))]]
      [] value.type = "str" ->
            [ok |-> TRUE, items |-> [k \in 1..Len(value.val) |-> JStr(<<value.val[k]>>)]]
      [] OTHER -> [ok |-> FALSE, items |-> <<>>]

\* get_tool_prompts_by_commands.normalize: the text, or an AttributeError
normalize(cmd) ==
    IF ~Truthy(cmd) THEN [ok |-> TRUE, text |-> <<>>]
    ELSE IF cmd.type = "str" THEN [ok |-> TRUE, text |-> LStripSlash(cmd.val)]
    ELSE [ok |-> FALSE, text |-> <<>>]

\* mutant: commands are compared without regard to case
GetToolPromptsByCommands_IgnoresCase(tools, selected_commands) ==
    LET it == Iterate(selected_commands)
        norm == [k \in 1..Len(it.items) |-> normalize(it.items[k])]
        selected_normalized == {LowerStr(norm[k].text) : k \in 1..Len(it.items)}
        Matches(t) == LowerStr(LStripSlash(t.command)) \in selected_normalized
    IN IF ~it.ok \/ \E k \in 1..Len(it.items) : ~norm[k].ok
       THEN [ok |-> FALSE, tools |-> <<>>]
       ELSE [ok |-> TRUE, tools |-> SelectSeq(tools, Matches)]

\* get_tool_prompts_by_commands: the matching tools, or an exception
GetToolPromptsByCommands(tools, selected_commands) ==
    LET it == Iterate(selected_commands)
        norm == [k \in 1..Len(it.items) |-> normalize(it.items[k])]
        selected_normalized == {norm[k].text : k \in 1..Len(it.items)}
        Matches(t) == LStripSlash(t.command) \in selected_normalized
    IN IF ~it.ok \/ \E k \in 1..Len(it.items) : ~norm[k].ok
       THEN [ok |-> FALSE, tools |-> <<>>]
       ELSE [ok |-> TRUE, tools |-> SelectSeq(tools, Matches)]

\* key=lambda t: t.tool_priority or 0
PriorityKey(t) == IF t.tool_priority = <<>> THEN 0 ELSE t.tool_priority[1]

\* sorted(..., reverse=True) is stable: t goes after the tools of a key not lower
InsertByPriority(sorted, t) ==
    LET ahead == {i \in 1..Len(sorted) : PriorityKey(sorted[i]) >= PriorityKey(t)}
        n == IF ahead = {} THEN 0 ELSE SetMax(ahead)
    IN SubSeq(sorted, 1, n) \o <<t>> \o SubSeq(sorted, n + 1, Len(sorted))

\* mutant: tools keep the order of the tool list
SortByPriority_KeepsOrder(tools) == tools

RECURSIVE SortByPriority(_)

SortByPriority(tools) ==
    IF Len(tools) = 0 THEN <<>>
    ELSE InsertByPriority(SortByPriority(SubSeq(tools, 1, Len(tools) - 1)), tools[Len(tools)])

RECURSIVE JoinContents(_)

\* "\n\n".join([t.content for t in sorted_tools])
JoinContents(tools) ==
    IF Len(tools) = 0 THEN <<>>
    ELSE IF Len(tools) = 1 THEN tools[1].content
    ELSE tools[1].content \o <<"\n\n">> \o JoinContents(Tail(tools))

\* compose_stage2_system_prompt
ComposeStage2SystemPrompt(base_system, selected_tool_prompts) ==
    IF Len(selected_tool_prompts) = 0 THEN base_system
    ELSE base_system \o <<"\n\n">> \o JoinContents(SortByPriority(selected_tool_prompts))

RECURSIVE CatalogLines(_)

CatalogLines(tools) ==
    IF Len(tools) = 0 THEN <<>>
    ELSE <<"\n", "- ">> \o tools[1].command \o <<": ">> \o tools[1].description
             \o CatalogLines(Tail(tools))

\* build_tool_catalog
BuildToolCatalog(tools) ==
    IF Len(tools) = 0 THEN <<>> ELSE <<"[Available Tools]">> \o CatalogLines(tools)

\* build_tool_selection_system_prompt
BuildToolSelectionSystemPrompt(base_system, tool_catalog) ==
    base_system \o <<"\n\n">> \o tool_catalog \o <<"\n\n", "{tool selection instructions}">>

\* ------------------------------------------------------------------------
\* Tool mode dispatch and two-stage gating: generate_chat_completion
\* (routers/openai.py) and execute_with_tool_gating (tool_gating.py)
\* ------------------------------------------------------------------------
\* str.lower on the words of a base prompt
LowerWord(u) ==
    CASE u = "Title" -> "title"
      [] u = "Generate" -> "generate"
      [] u = "Create" -> "create"
      [] OTHER -> u

LowerWords(text) == [i \in 1..Len(text) |-> LowerWord(text[i])]

\* title_keywords of line 1062 (the Korean keyword written [jemok])
TitleKeywords ==
    { <<"title">>, <<"[jemok]">>, <<"generate", " ", "a", " ", "title">>,
      <<"Create", " ", "a", " ", "concise">> }

UtilityTasks == {"title_generation", "summary", "title"}

\* lines 1053-1064
IsUtilityRequest(task, base_system) ==
    \/ task \in UtilityTasks
    \/ /\ base_system # <<>>
       /\ \E keyword \in TitleKeywords :
             Find(LowerWords(base_system), LowerWords(keyword), 1) > 0

\* mutant: the utility override is not applied to the effective mode
EffectiveToolMode_NoOverride(model_tool_mode, is_utility_request) ==
    IF model_tool_mode = "" THEN "inline" ELSE model_tool_mode

\* lines 1073 and 1080-1083; the unset mode is ""
EffectiveToolMode(model_tool_mode, is_utility_request) ==
    IF is_utility_request THEN "none"
    ELSE IF model_tool_mode = "" THEN "inline"
    ELSE model_tool_mode

ToolHints == <<"{tool hints}">>

Stage1Error == <<"{stage 1 error}">>

Stage2Error == <<"{stage 2 error}">>

Stage2Text == <<"{stage 2 text}">>

FinalText == <<"{final generation text}">>

NoResult == [text |-> JNone, used_tools |-> JList(<<>>), stage |-> 0]

FreshGating ==
    [pc |-> "start",
     is_utility_request |-> FALSE,
     effective_tool_mode |-> "",
     strategy |-> <<>>,          \* the branches that have set final_system
     final_system |-> <<>>,
     inline_enabled |-> FALSE,   \* metadata["enable_tool_notifications"]
     stage1_calls |-> <<>>,      \* Stage 1 calls issued: [stream, system]
     stage1_outcomes |-> <<>>,   \* what they returned
     stage2_calls |-> <<>>,      \* execute_with_tool_gating: Stage 2 system prompts
     final_calls |-> <<>>,       \* final generation calls issued: system prompts
     selected_tools |-> JList(<<>>),
     direct_answer |-> JNone,
     result |-> NoResult,        \* execute_with_tool_gating: ToolGatingResult
     delivered |-> <<>>]         \* texts delivered to the user

\* what make_gemini_llm_call (lines 211-288) or llm_call_fn returns
CallResult(outcome, text, error) ==
    IF outcome = "success" THEN [success |-> TRUE, text |-> text]
    ELSE [success |-> FALSE, text |-> error]

\* lines 1166-1188 and the final generation call (line 1235)
Finish(req, g) ==
    [g EXCEPT !.inline_enabled =
                  (g.effective_tool_mode = "inline" /\ Len(req.tool_prompts) > 0),
              !.final_calls = Append(@, g.final_system),
              !.pc = "await_final"]

SetFinalSystem(g, strategy, final_system) ==
    [g EXCEPT !.strategy = Append(@, strategy), !.final_system = final_system]

\* mutant: a model in gating mode makes the Stage 1 call whatever its tool list
Dispatch_GatesWithoutTools(req, g) ==
    LET utility == IsUtilityRequest(req.task, req.base_system)
        mode == EffectiveToolMode(req.model_tool_mode, utility)
        g1 == [g EXCEPT !.is_utility_request = utility, !.effective_tool_mode = mode]
    IN IF mode = "gating"
       THEN [g1 EXCEPT !.strategy = Append(@, "gating"),
                       !.final_system = req.base_system,
                       !.stage1_calls =
                           Append(@, [stream |-> "false",
                                      system |-> BuildToolSelectionSystemPrompt(
                                                     req.base_system, <<>>)]),
                       !.pc = "await_stage1"]
       ELSE Finish(req, SetFinalSystem(g1, "base", req.base_system))

\* generate_chat_completion, lines 1046-1164: up to the Stage 1 call, or to the
\* final generation call when no Stage 1 call is made
Dispatch(req, g) ==
    LET utility == IsUtilityRequest(req.task, req.base_system)
        mode == EffectiveToolMode(req.model_tool_mode, utility)
        tools == req.tool_prompts
        g1 == [g EXCEPT !.is_utility_request = utility, !.effective_tool_mode = mode]
    IN IF mode = "gating" /\ Len(tools) > 0
       THEN [g1 EXCEPT !.strategy = Append(@, "gating"),
                       !.final_system = req.base_system,
                       !.stage1_calls =
                           Append(@, [stream |-> "false",
                                      system |-> BuildToolSelectionSystemPrompt(
                                                     req.base_system, BuildToolCatalog(tools))]),
                       !.pc = "await_stage1"]
       ELSE IF mode = "concat" /\ Len(tools) > 0
       THEN Finish(req, SetFinalSystem(g1, "concat",
                                       ComposeStage2SystemPrompt(req.base_system, tools)))
       ELSE IF mode = "none" \/ Len(tools) = 0
       THEN Finish(req, SetFinalSystem(g1, "base", req.base_system))
       ELSE Finish(req, SetFinalSystem(g1, "inline",
                                       IF req.base_system # <<>>
                                       THEN req.base_system \o <<"\n\n">> \o ToolHints
                                       ELSE ToolHints))

\* mutant: a failed Stage 1 call is issued again
Stage1Returned_Retries(req, g, result) ==
    IF ~result.success /\ Len(g.stage1_calls) < 2
    THEN [g EXCEPT !.stage1_outcomes = Append(@, result),
                   !.stage1_calls = Append(@, g.stage1_calls[1])]
    ELSE Finish(req, [g EXCEPT !.stage1_outcomes = Append(@, result)])

\* mutant: an empty selection falls back to the contents of all tools
Stage1Decided_ComposesAll(req, g, selected_tools, selected_tool_prompts) ==
    IF ~Truthy(selected_tools)
    THEN Finish(req, [g EXCEPT !.final_system =
                          ComposeStage2SystemPrompt(req.base_system, req.tool_prompts)])
    ELSE IF ~selected_tool_prompts.ok
    THEN [g EXCEPT !.pc = "raised"]
    ELSE Finish(req, [g EXCEPT !.final_system =
                          ComposeStage2SystemPrompt(req.base_system,
                                                    selected_tool_prompts.tools)])

\* lines 1133-1145: the decision on the parsed selection
Stage1Decided(req, g, selected_tools, selected_tool_prompts) ==
    IF ~Truthy(selected_tools)
    THEN Finish(req, [g EXCEPT !.final_system = req.base_system])
    ELSE IF ~selected_tool_prompts.ok
    THEN [g EXCEPT !.pc = "raised"]
    ELSE Finish(req, [g EXCEPT !.final_system =
                          ComposeStage2SystemPrompt(req.base_system,
                                                    selected_tool_prompts.tools)])

\* lines 1127-1141: the reply is parsed
Stage1Parsed(req, g, p) ==
    Stage1Decided(req, [g EXCEPT !.selected_tools = p.tools, !.direct_answer = p.answer],
                  p.tools, GetToolPromptsByCommands(req.tool_prompts, p.tools))

\* generate_chat_completion, lines 1122-1145: from the return of the Stage 1 call
Stage1Returned(req, g, result) ==
    IF ~result.success
    THEN Finish(req, [g EXCEPT !.stage1_outcomes = Append(@, result),
                               !.final_system = req.base_system])
    ELSE Stage1Parsed(req, [g EXCEPT !.stage1_outcomes = Append(@, result)],
                      ParseToolSelectionResponse(result.text))

\* the final generation call returns and its text goes to the user
FinalReturned(g) ==
    [g EXCEPT !.delivered = Append(@, FinalText), !.pc = "done"]

GatingResult(text, used_tools, stage) ==
    [text |-> text, used_tools |-> used_tools, stage |-> stage]

\* execute_with_tool_gating, lines 235-246: up to the Stage 1 call
GatingStart(req, g) ==
    [g EXCEPT !.strategy = Append(@, "gating"),
              !.stage1_calls =
                  Append(@, [stream |-> "llm_kwargs",
                             system |-> BuildToolSelectionSystemPrompt(
                                            req.base_system,
                                            BuildToolCatalog(req.tool_prompts))]),
              !.pc = "await_stage1"]

\* lines 263-286: the decision on the parsed selection
GatingStage1Decided(g, direct_answer, selected_tool_prompts, stage2_system) ==
    IF ~Truthy(g.selected_tools) /\ Truthy(direct_answer)
    THEN [g EXCEPT !.result = GatingResult(direct_answer, JList(<<>>), 1),
                   !.pc = "done"]
    ELSE IF ~selected_tool_prompts.ok
    THEN [g EXCEPT !.pc = "raised"]
    ELSE [g EXCEPT !.final_system = stage2_system,
                   !.stage2_calls = Append(@, stage2_system),
                   !.pc = "await_stage2"]

\* lines 275-276: filtering and composition
GatingStage1Filtered(req, g, direct_answer, selected_tool_prompts) ==
    GatingStage1Decided(g, direct_answer, selected_tool_prompts,
                        ComposeStage2SystemPrompt(req.base_system,
                                                  selected_tool_prompts.tools))

\* lines 256-260: the reply is parsed
GatingStage1Parsed(req, g, p) ==
    GatingStage1Filtered(req,
                         [g EXCEPT !.selected_tools = p.tools, !.direct_answer = p.answer],
                         p.answer, GetToolPromptsByCommands(req.tool_prompts, p.tools))

\* execute_with_tool_gating, lines 248-286: from the return of the Stage 1 call
GatingStage1Returned(req, g, result) ==
    IF ~result.success
    THEN [g EXCEPT !.stage1_outcomes = Append(@, result),
                   !.result = GatingResult(JStr(result.text), JList(<<>>), 1),
                   !.pc = "done"]
    ELSE GatingStage1Parsed(req, [g EXCEPT !.stage1_outcomes = Append(@, result)],
                            ParseToolSelectionResponse(result.text))

\* execute_with_tool_gating, lines 288-310: from the return of the Stage 2 call
GatingStage2Returned(g, result) ==
    IF result.success
    THEN [g EXCEPT !.result = GatingResult(JStr(result.text), g.selected_tools, 2),
                   !.pc = "done"]
    ELSE IF Truthy(g.direct_answer)
    THEN [g EXCEPT !.result = GatingResult(g.direct_answer, JList(<<>>), 1),
                   !.pc = "done"]
    ELSE [g EXCEPT !.result = GatingResult(JStr(result.text), g.selected_tools, 2),
                   !.pc = "done"]

\* requests
ToolSlashA ==
    [command |-> <<"/", "a">>, description |-> <<"{description of a}">>,
     content |-> <<"{content of a}">>, tool_priority |-> <<2>>]

ToolB ==
    [command |-> <<"b">>, description |-> <<"{description of b}">>,
     content |-> <<"{content of b}">>, tool_priority |-> <<5>>]

ToolUpperA ==
    [command |-> <<"A">>, description |-> <<"{description of A}">>,
     content |-> <<"{content of A}">>, tool_priority |-> <<>>]

ToolPromptLists == {<<>>, <<ToolSlashA, ToolB>>, <<ToolUpperA, ToolSlashA, ToolB>>}

\* meta.tool_mode: unset, the four documented modes, and an undocumented one
ModelToolModes == {"", "gating", "concat", "none", "inline", "other"}

\* metadata.task: absent, a chat, and the utility tasks
Tasks == {"", "chat"} \cup UtilityTasks

BaseSystems == {<<>>, <<"{base prompt}">>, <<"Generate", " ", "a", " ", "Title">>}

Requests ==
    [entry : {"generate_chat_completion"}, model_tool_mode : ModelToolModes,
     tool_prompts : ToolPromptLists, task : Tasks, base_system : BaseSystems]
    \cup
    [entry : {"execute_with_tool_gating"}, model_tool_mode : {"gating"},
     tool_prompts : ToolPromptLists \ {<<>>}, task : {"chat"},
     base_system : BaseSystems]

\* texts of a successful Stage 1 call
Stage1Replies ==
    { NotJsonAtAll,
      Object(NeedTools(<<"[", "]">>)),
      Object(NeedTools(<<"[", "]">>) \o <<",", " ">> \o Answer),
      Object(NeedTools(<<"[", "\"a\"", "]">>)),
      Object(NeedTools(<<"[", "\"a\"", "]">>) \o <<",", " ">> \o Answer),
      Object(NeedTools(<<"[", "\"b\"", ",", " ", "\"/a\"", "]">>)),
      Object(NeedTools(<<"[", "\"A\"", ",", "\"b\"", "]">>)),
      Object(NeedTools(<<"[", "\"y\"", "]">>)),
      Object(NeedTools(<<"\"b\"">>)),
      Object(NeedTools(<<"5">>)),
      Object(NeedTools(<<"null">>)),
      Object(NeedTools(<<"true">>)),
      Object(NeedTools(Object(<<"\"b\"", ":", "1">>))),
      Object(NeedTools(<<"[", "1", "]">>)),
      Object(NeedTools(<<"[", "null", "]">>)) }

CallOutcomes == {"success", "http_error", "exception"}

InitGating ==
    /\ tool_prompts = <<>>
    /\ llm_call_fn = FALSE
    /\ source = <<>>
    /\ stream = <<>>
    /\ executor = FreshExecutor
    /\ trace = FreshTrace
    /\ flushes = 0
    /\ response = <<>>
    /\ parsed = NotParsed
    /\ request \in Requests
    /\ gating = FreshGating
    /\ tracker = NoTracker
    /\ daemon = NoDaemon

Others == <<tool_prompts, llm_call_fn, executor, trace, source, stream, flushes,
            response, parsed, request, tracker, daemon>>

\* generate_chat_completion decides the tool handling of the request
SelectMode ==
    /\ request.entry = "generate_chat_completion"
    /\ gating.pc = "start"
    /\ gating' = Dispatch(request, gating)
    /\ UNCHANGED Others

\* the Stage 1 call of generate_chat_completion returns, fails or raises
Stage1Return(outcome, reply) ==
    /\ request.entry = "generate_chat_completion"
    /\ gating.pc = "await_stage1"
    /\ gating' = Stage1Returned(request, gating, CallResult(outcome, reply, Stage1Error))
    /\ UNCHANGED Others

\* the final generation call returns
FinalReturn ==
    /\ gating.pc = "await_final"
    /\ gating' = FinalReturned(gating)
    /\ UNCHANGED Others

\* execute_with_tool_gating is called
StartGating ==
    /\ request.entry = "execute_with_tool_gating"
    /\ gating.pc = "start"
    /\ gating' = GatingStart(request, gating)
    /\ UNCHANGED Others

\* llm_call_fn returns from the Stage 1 call of execute_with_tool_gating
GatingStage1Return(outcome, reply) ==
    /\ request.entry = "execute_with_tool_gating"
    /\ gating.pc = "await_stage1"
    /\ gating' = GatingStage1Returned(request, gating,
                                      CallResult(outcome, reply, Stage1Error))
    /\ UNCHANGED Others

\* llm_call_fn returns from the Stage 2 call of execute_with_tool_gating
GatingStage2Return(outcome) ==
    /\ gating.pc = "await_stage2"
    /\ gating' = GatingStage2Returned(gating, CallResult(outcome, Stage2Text, Stage2Error))
    /\ UNCHANGED Others

NextGating ==
    \/ SelectMode
    \/ \E outcome \in CallOutcomes, reply \in Stage1Replies : Stage1Return(outcome, reply)
    \/ FinalReturn
    \/ StartGating
    \/ \E outcome \in CallOutcomes, reply \in Stage1Replies :
          GatingStage1Return(outcome, reply)
    \/ \E outcome \in CallOutcomes : GatingStage2Return(outcome)

SpecGating == InitGating /\ [][NextGating]_vars

\* ------------------------------------------------------------------------
\* Vocabulary of the properties
\* ------------------------------------------------------------------------
Idle == executor.pc = "idle"

\* the part of the stream that has been handed to process_chunk
Consumed == Prefix(source, Len(source) - Len(stream))

\* every chunk has been processed and flush has not been called yet
Done == Idle /\ stream = <<>> /\ flushes = 0

Last(s) == s[Len(s)]

\* the result of feeding `text` to a fresh executor as one chunk
RECURSIVE RunToReturn(_)
RunToReturn(st) ==
    IF st.e.pc = "idle" THEN st ELSE RunToReturn(NestedCallReturned(st, "success"))

OneShot(text) == RunToReturn(ProcessChunkCall(Fresh, text))

IsMarkerOf(text, cmd) ==
    /\ Len(text) >= Len(OpenTag(cmd)) + Len(CloseTag(cmd))
    /\ StartsWithAt(text, 1, OpenTag(cmd))
    /\ EndsWith(text, CloseTag(cmd))

ContextOf(text, cmd) == SubSeq(text, Len(OpenTag(cmd)) + 1, Len(text) - Len(CloseTag(cmd)))

SameAsOneShot ==
    /\ trace.plain = OneShot(source).t.plain
    /\ trace.calls = OneShot(source).t.calls

HasCompleteMarker(text) ==
    \/ UnsupportedSearch(text).ok
    \/ MarkerSearch(text, BuildMarkerPattern(tool_prompts)).ok

MarkerWords == {"tool-", "unsupported", "tool=\"", "reason=\""}

NoMarkerWord(text) == \A i \in 1..Len(text) : text[i] \notin MarkerWords

\* ------------------------------------------------------------------------
\* C1
\* ------------------------------------------------------------------------
\* C1 as stated: for every registered command cmd and every context ctx, once
\* all chunks of <cmd>ctx</cmd> have been processed, the emitted stream text and
\* the tool executions are those of feeding the string as one chunk.
C1_AnyContextSameAsOneShot ==
    (Done /\ \E k \in 1..Len(tool_prompts) : IsMarkerOf(source, tool_prompts[k].key))
        => SameAsOneShot

\* the context holds no unsupported marker and no opening tag of another
\* registered command
CleanContext(ctx, k) ==
    /\ ~UnsupportedSearch(ctx).ok
    /\ \A j \in 1..Len(tool_prompts) :
          j # k => FindCI(ctx, OpenTag(tool_prompts[j].key), 1) = 0

\* C1 amended: the same, for every context that contains neither an unsupported
\* marker nor the opening tag of another registered command.
C1_CleanContextSameAsOneShot ==
    (Done /\ \E k \in 1..Len(tool_prompts) :
                /\ IsMarkerOf(source, tool_prompts[k].key)
                /\ CleanContext(ContextOf(source, tool_prompts[k].key), k))
        => SameAsOneShot

C1_Witness ==
    /\ Done
    /\ trace.several
    /\ source = OpenTag(CmdA) \o <<"x">> \o CloseTag(CmdA)
    /\ trace.calls = << <<CmdA, <<"x">>>> >>
    /\ trace.plain = <<>>

\* ------------------------------------------------------------------------
\* C2
\* ------------------------------------------------------------------------
\* C2: no unit of an unsupported marker is ever returned by process_chunk or
\* flush, and a stream x<marker>x has run the recovery exactly once when all of
\* it has been processed.
C2_UnsupportedNeverEmitted ==
    /\ NoMarkerWord(trace.emitted)
    /\ \A i \in 1..Len(trace.flushed) : NoMarkerWord(trace.flushed[i])
    /\ (Done /\ source = <<"x">> \o UnsupportedMarker \o <<"x">>)
          => Len(trace.recoveries) = 1

\* ------------------------------------------------------------------------
\* C3
\* ------------------------------------------------------------------------
NothingTriggered ==
    /\ trace.calls = <<>>
    /\ trace.recoveries = <<>>
    /\ trace.events = <<>>
    /\ trace.nested = <<>>

\* C3 as stated: when a text without any marker has been processed, the
\* concatenated results of process_chunk equal the text and nothing was triggered.
C3_PassThroughEqualsSource ==
    (Done /\ ~HasCompleteMarker(source))
        => (trace.emitted = source /\ NothingTriggered)

\* C3 amended: while a text without any marker is processed, the concatenated
\* results of process_chunk followed by the buffer equal the text received so
\* far, and no tool execution, recovery call, nested call or event is triggered.
C3_PassThroughUpToBuffer ==
    (Idle /\ flushes = 0 /\ ~HasCompleteMarker(source))
        => (trace.emitted \o executor.buffer = Consumed /\ NothingTriggered)

C3_Witness ==
    /\ Done
    /\ Commands(tool_prompts) = <<CmdA>>
    /\ source = OpenTag(CmdB) \o <<"x">> \o CloseTag(CmdB)
    /\ trace.several
    /\ trace.emitted = source
    /\ NothingTriggered

OpeningTags ==
    {OpenTag(tool_prompts[k].key) : k \in 1..Len(tool_prompts)} \cup {UNSUPPORTED_PARTIAL}

LongestOpeningTag == SetMax({Len(tag) : tag \in OpeningTags})

IsTagPrefix(text) == \E tag \in OpeningTags : \E i \in 1..Len(tag) : text = Prefix(tag, i)

\* the text starts with an opening tag whose marker has not been closed
IsOpenedMarker(text) ==
    \/ \E k \in 1..Len(tool_prompts) :
          /\ StartsWithAt(text, 1, OpenTag(tool_prompts[k].key))
          /\ Find(text, CloseTag(tool_prompts[k].key), 1) = 0
    \/ /\ StartsWithAt(text, 1, UNSUPPORTED_PARTIAL)
       /\ Find(text, <<"/", ">">>, 1) = 0

\* C5 as stated: whenever process_chunk has returned, the buffer is empty or a
\* prefix of a known opening tag that ends the text received so far, and is
\* never longer than the longest opening tag.
C5_OnlyTagPrefixRetained ==
    (Idle /\ flushes = 0)
        => /\ executor.buffer = <<>> \/ IsTagPrefix(executor.buffer)
           /\ Len(executor.buffer) <= LongestOpeningTag
           /\ EndsWith(Consumed, executor.buffer)

\* C5 amended: whenever process_chunk has returned, the buffer ends the text
\* received so far and is empty, a prefix of a known opening tag, or a text that
\* starts with a known opening tag whose marker is not closed yet (which grows
\* with the context); as long as no marker has been handled, everything before
\* it has been emitted.
C5_RetainedTail ==
    (Idle /\ flushes = 0)
        => /\ \/ executor.buffer = <<>>
              \/ IsTagPrefix(executor.buffer)
              \/ IsOpenedMarker(executor.buffer)
           /\ EndsWith(Consumed, executor.buffer)
           /\ (trace.calls = <<>> /\ trace.recoveries = <<>>)
                 => trace.emitted \o executor.buffer = Consumed

C5_Witness ==
    /\ Idle
    /\ source = <<"x">> \o OpenTag(CmdA) \o <<"x">>
    /\ stream = <<>>
    /\ executor.buffer = OpenTag(CmdA) \o <<"x">>
    /\ trace.emitted = <<"x">>

\* ------------------------------------------------------------------------
\* C6
\* ------------------------------------------------------------------------
CommentHeads ==
    {"\n<!-- Tool '", "\n<!-- No LLM function for tool '",
     "\n<!-- Tool error: ", "\n<!-- Tool exception: "}

CommentTails == {"' not found -->\n", "' -->\n", " -->\n"}

ToolResultOk(call, result) ==
    LET outcome == result[1]
        text == result[2]
    IN /\ (outcome = "not_found") = (FindToolPrompt(tool_prompts, call[1]) = <<>>)
       /\ outcome = "no_llm" => ~llm_call_fn
       /\ outcome \in Outcomes => llm_call_fn
       /\ IF outcome = "success"
          THEN Len(text) = 3 /\ text[1] = "\n" /\ text[3] = "\n"
          ELSE text[1] \in CommentHeads /\ Last(text) \in CommentTails

SumLen(results) ==
    LET RECURSIVE sum(_)
        sum(i) == IF i = 0 THEN 0 ELSE Len(results[i][2]) + sum(i - 1)
    IN sum(Len(results))

\* C6: process_chunk never ends in an exception; every execution of a detected
\* command marker has returned a text when process_chunk returns, the generated
\* text wrapped in newlines on success and an inert comment otherwise; and the
\* text that follows the marker stays in the buffer or is emitted.
C6_ToolExecutionNeverAborts ==
    /\ executor.pc \in {"idle", "await_tool", "await_recovery"}
    /\ Idle => Len(trace.tool_results) = Len(trace.calls)
    /\ \A i \in 1..Len(trace.tool_results) :
          ToolResultOk(trace.calls[i], trace.tool_results[i])
    /\ (Idle /\ tool_prompts # <<>>) => trace.origin \o executor.buffer = Consumed
    /\ Idle => Len(trace.emitted) = Len(trace.plain) + SumLen(trace.tool_results)
                                        + SumLen(trace.recovery_results)

C6_Witness ==
    /\ Done
    /\ source = OpenTag(CmdA) \o CloseTag(CmdA) \o <<"x">>
    /\ trace.tool_results = << <<"raise", ToolExceptionText>> >>
    /\ trace.emitted = ToolExceptionText \o <<"x">>

\* ------------------------------------------------------------------------
\* C7
\* ------------------------------------------------------------------------
\* C7: every step in which a recovery returns leaves process_chunk running or
\* returned, adds no unit of the marker to the generated text, and contributes
\* the fixed fragment citing the reason when no nested-call capability is
\* configured and the empty string when the nested call fails or raises.
C7_RecoveryDegrades ==
    [][\A i \in (Len(trace.recovery_results) + 1)..Len(trace'.recovery_results) :
          LET outcome == trace'.recovery_results[i][1]
              text == trace'.recovery_results[i][2]
              reason == trace'.recoveries[i][2]
          IN /\ (outcome = "no_llm") = ~llm_call_fn
             /\ outcome = "no_llm" =>
                   (text # <<>> /\ text = RecoveryNoLLMText(reason) /\ Contains(text, reason))
             /\ outcome \in {"failure", "raise"} => text = <<>>
             /\ executor'.pc \in {"idle", "await_tool", "await_recovery"}
             /\ NoMarkerWord(From(executor'.generated_content,
                                  Len(executor.generated_content) + 1))]_vars

C7_Witness ==
    /\ Done
    /\ tool_prompts # <<>>
    /\ source = <<"x">> \o UnsupportedMarker \o <<"x">>
    /\ trace.recovery_results = << <<"failure", <<>>>> >>
    /\ trace.emitted = <<"x", "x">>

\* ------------------------------------------------------------------------
\* C8
\* ------------------------------------------------------------------------
\* C8: after an unsupported marker has been handled, the text received so far
\* is what has left the buffer (as emitted text or as the handled marker)
\* followed by the buffer: nothing that followed the marker is dropped.
C8_TextAfterUnsupportedKept ==
    (Idle /\ trace.recoveries # <<>>) => trace.origin \o executor.buffer = Consumed

\* ------------------------------------------------------------------------
\* C9
\* ------------------------------------------------------------------------
\* C9: a flush returns exactly the buffer, empties it, triggers no tool call,
\* recovery call, nested call or event, and returns the empty string when it
\* follows another flush.
C9_FlushReturnsBuffer ==
    [][flushes' = flushes + 1 =>
          /\ Last(trace'.flushed) = executor.buffer
          /\ executor'.buffer = <<>>
          /\ trace'.calls = trace.calls
          /\ trace'.recoveries = trace.recoveries
          /\ trace'.events = trace.events
          /\ trace'.nested = trace.nested
          /\ trace'.emitted = trace.emitted
          /\ flushes >= 1 => Last(trace'.flushed) = <<>>]_vars

C9_Witness ==
    /\ flushes = 2
    /\ trace.flushed = << OpenTag(CmdA) \o <<"x">>, <<>> >>
    /\ NothingTriggered

\* ------------------------------------------------------------------------
\* C10
\* ------------------------------------------------------------------------
HasBrace(text) == \E i \in 1..Len(text) : text[i] \in {"{", "}"}

IsEmptyList(value) == value.type = "list" /\ Len(value.val) = 0

IsText(value, text) == value.type = "str" /\ value.val = text

FencedEmptySelection ==
    { lead \o open \o Object(NeedTools(<<"[", "]">>)) \o <<"\n", Fence>> \o trail :
        lead \in Margins, open \in {<<Fence, "json", "\n">>, <<Fence, "\n">>},
        trail \in Margins }

\* C10: parse_tool_selection_response returns a pair for every reply; when no
\* JSON object is found in the reply or decoding fails the pair is the empty
\* selection and the whole original reply; a fenced object with an empty
\* need_tools and no answer gives the empty selection and None.
C10_ParseReturnsPair ==
    parsed.how # "not called" =>
        /\ parsed.how = "returned"
        /\ parsed.path \in {"no_match", "decode_error", "parsed"}
        /\ ~HasBrace(response) => parsed.path = "no_match"
        /\ parsed.path \in {"no_match", "decode_error"} =>
              (IsEmptyList(parsed.tools) /\ IsText(parsed.answer, response))
        /\ response = NotJsonAtAll =>
              (IsEmptyList(parsed.tools) /\ IsText(parsed.answer, NotJsonAtAll))
        /\ response \in FencedEmptySelection =>
              (IsEmptyList(parsed.tools) /\ parsed.answer.type = "none")

C10_Witness ==
    /\ parsed.how = "returned"
    /\ parsed.path = "decode_error"
    /\ response = <<"\n", Fence, "json", "\n">> \o Object(<<"bad">>) \o <<"\n", Fence, "\n">>
    /\ IsText(parsed.answer, response)

\* ------------------------------------------------------------------------
\* C11
\* ------------------------------------------------------------------------
\* C11: for every decoded selection object the selection returned is a list
\* whose elements are commands (strings).
C11_SelectionIsListOfCommands ==
    (parsed.how = "returned" /\ parsed.path = "parsed") =>
        /\ parsed.tools.type = "list"
        /\ \A i \in 1..Len(parsed.tools.val) : parsed.tools.val[i].type = "str"

\* ------------------------------------------------------------------------
\* Gating: vocabulary of the properties
\* ------------------------------------------------------------------------
Router == request.entry = "generate_chat_completion"

Function == request.entry = "execute_with_tool_gating"

Stage1Answered == gating.stage1_outcomes # <<>>

Stage1Succeeded == Stage1Answered /\ gating.stage1_outcomes[1].success

Stage1Failed == Stage1Answered /\ ~gating.stage1_outcomes[1].success

IsStr(value, text) == value.type = "str" /\ value.val = text

\* the system prompts of the generation calls made after Stage 1
GenerationCalls == IF Router THEN gating.final_calls ELSE gating.stage2_calls

\* the text for the user is the text of the generation call made after Stage 1
FromGeneration ==
    IF Router THEN gating.delivered = <<FinalText>> /\ gating.result = NoResult
    ELSE IsStr(gating.result.text, Stage2Text)

\* ------------------------------------------------------------------------
\* C12
\* ------------------------------------------------------------------------
\* C12: once the Stage 1 call has failed, the final generation call is made
\* with the base system prompt, and the Stage 1 error is neither the result
\* text nor delivered to the user.
C12_Stage1FailureFallsBack ==
    Stage1Failed =>
        /\ GenerationCalls = <<request.base_system>>
        /\ ~IsStr(gating.result.text, Stage1Error)
        /\ \A i \in 1..Len(gating.delivered) : gating.delivered[i] # Stage1Error

\* ------------------------------------------------------------------------
\* C13
\* ------------------------------------------------------------------------
\* C13 as stated: when Stage 1 has succeeded with an empty selection, the final
\* generation call is made with the base prompt and the text for the user is
\* the text of that call, never the Stage 1 answer.
C13_EmptySelectionUsesFinalGeneration ==
    (Stage1Succeeded /\ IsEmptyList(gating.selected_tools)) =>
        /\ GenerationCalls = <<request.base_system>>
        /\ gating.pc = "done" => FromGeneration

\* C13 amended: in generate_chat_completion it is as stated; in
\* execute_with_tool_gating a non-empty Stage 1 answer is returned as the
\* result (stage 1) without a Stage 2 call, and only without such an answer
\* the Stage 2 call is made with the base prompt.
C13_EmptySelectionByEntry ==
    (Stage1Succeeded /\ IsEmptyList(gating.selected_tools)) =>
        /\ Router =>
              /\ gating.final_calls = <<request.base_system>>
              /\ gating.result = NoResult
              /\ gating.pc = "done" => gating.delivered = <<FinalText>>
        /\ (Function /\ Truthy(gating.direct_answer)) =>
              /\ gating.pc = "done"
              /\ gating.result.text = gating.direct_answer
              /\ gating.result.stage = 1
              /\ gating.stage2_calls = <<>>
        /\ (Function /\ ~Truthy(gating.direct_answer)) =>
              /\ gating.stage2_calls = <<request.base_system>>
              /\ gating.pc = "done" => gating.result.stage = 2

C13_Witness ==
    /\ Router
    /\ gating.pc = "done"
    /\ Stage1Succeeded
    /\ IsEmptyList(gating.selected_tools)
    /\ IsStr(gating.direct_answer, <<"y">>)
    /\ request.base_system = <<"{base prompt}">>
    /\ gating.final_calls = << <<"{base prompt}">> >>
    /\ gating.delivered = <<FinalText>>

\* ------------------------------------------------------------------------
\* C14
\* ------------------------------------------------------------------------
\* the selection is a non-empty list of command texts
IsCommandList(value) ==
    /\ value.type = "list"
    /\ Len(value.val) > 0
    /\ \A i \in 1..Len(value.val) : value.val[i].type = "str"

\* the tool's command equals a selected command, leading slashes apart
IsSelected(t, value) ==
    \E i \in 1..Len(value.val) : LStripSlash(t.command) = LStripSlash(value.val[i].val)

\* the prompt is the base prompt followed by the contents of exactly the tools
\* of the set, each after a blank line, the higher priority first
IsComposedOf(prompt, tools) ==
    /\ Prefix(prompt, Len(request.base_system)) = request.base_system
    /\ Len(prompt) = Len(request.base_system) + 2 * Cardinality(tools)
    /\ \A t \in tools :
          \E i \in (Len(request.base_system) + 1)..(Len(prompt) - 1) :
             prompt[i] = "\n\n" /\ <<prompt[i + 1]>> = t.content
    /\ \A t1, t2 \in tools :
          PriorityKey(t1) > PriorityKey(t2) =>
             Find(prompt, t1.content, 1) < Find(prompt, t2.content, 1)

AllTools == {request.tool_prompts[k] : k \in 1..Len(request.tool_prompts)}

\* C14: the Stage 2 system prompt made for a selected-command list is the base
\* prompt followed by the contents of exactly the tools whose command equals a
\* selected command (leading slashes stripped, case-sensitively), after blank
\* lines and in descending priority; in concat mode it is so for all tools.
C14_Stage2Composition ==
    /\ (Stage1Succeeded /\ IsCommandList(gating.selected_tools)
          /\ gating.pc \in {"await_final", "await_stage2", "done"})
         => IsComposedOf(gating.final_system,
                         {t \in AllTools : IsSelected(t, gating.selected_tools)})
    /\ gating.strategy = <<"concat">> => IsComposedOf(gating.final_system, AllTools)

C14_Witness ==
    /\ Router
    /\ gating.pc = "done"
    /\ request.tool_prompts = <<ToolUpperA, ToolSlashA, ToolB>>
    /\ request.base_system = <<"{base prompt}">>
    /\ gating.selected_tools = JList(<<JStr(<<"b">>), JStr(<<"/", "a">>)>>)
    /\ gating.final_system =
          <<"{base prompt}", "\n\n", "{content of b}", "\n\n", "{content of a}">>

\* ------------------------------------------------------------------------
\* C15
\* ------------------------------------------------------------------------
\* C15: in gating mode no text of a successful Stage 1 call makes parsing,
\* filtering or composition raise: the handling never ends in an exception.
C15_GatingNeverRaises == gating.pc # "raised"

\* ------------------------------------------------------------------------
\* C16
\* ------------------------------------------------------------------------
Strategies == {"gating", "concat", "inline", "base"}

IsUtility ==
    \/ request.task \in {"title_generation", "summary", "title"}
    \/ request.base_system = <<"Generate", " ", "a", " ", "Title">>

\* C17: for a utility request, whatever the tool mode and the tool list, no
\* Stage 1 call is made, the final system prompt is the base prompt and inline
\* tool execution is not enabled.
C17_UtilityOverride ==
    (Router /\ gating.pc # "start" /\ IsUtility) =>
        /\ gating.is_utility_request
        /\ gating.stage1_calls = <<>>
        /\ gating.final_system = request.base_system
        /\ gating.final_calls = <<request.base_system>>
        /\ ~gating.inline_enabled

C17_Witness ==
    /\ Router
    /\ gating.pc = "done"
    /\ request.task = "title_generation"
    /\ request.model_tool_mode = "gating"
    /\ request.tool_prompts = <<ToolSlashA, ToolB>>
    /\ request.base_system = <<"{base prompt}">>
    /\ gating.final_calls = << <<"{base prompt}">> >>
    /\ gating.stage1_calls = <<>>

IsToolEvent(e) == e[1] \in {"tool_executing", "tool_completed"}

ToolEvents == SelectSeq(trace.events, IsToolEvent)

\* C19: the tool events are, for each execution in turn, one tool_executing
\* and then one tool_completed for its command; while the nested call of an
\* execution is outstanding its tool_executing is the last of them, and when
\* process_chunk has returned every execution has both, whatever its outcome.
C19_ToolEventProtocol ==
    /\ \A i \in 1..Len(ToolEvents) :
          /\ ToolEvents[i][1] = (IF i % 2 = 1 THEN "tool_executing" ELSE "tool_completed")
          /\ ToolEvents[i][2] = trace.calls[(i + 1) \div 2][1]
    /\ Len(ToolEvents) = Len(trace.calls) + Len(trace.tool_results)
    /\ executor.pc = "await_tool" =>
          /\ Len(trace.tool_results) = Len(trace.calls) - 1
          /\ ToolEvents[Len(ToolEvents)][1] = "tool_executing"
          /\ Last(trace.nested)[1] = "tool"
    /\ executor.pc # "await_tool" => Len(trace.tool_results) = Len(trace.calls)

C19_Witness ==
    /\ Done
    /\ source = <<"x">> \o OpenTag(CmdA) \o CloseTag(CmdA)
    /\ trace.tool_results = << <<"raise", ToolExceptionText>> >>
    /\ trace.events = << <<"tool_executing", CmdA>>, <<"tool_completed", CmdA>> >>

\* ------------------------------------------------------------------------
\* C20
\* ------------------------------------------------------------------------
IsRecoveryEvent(e) == e[1] \in {"tool_recovery", "tool_recovery_completed"}

RecoveryEvents == SelectSeq(trace.events, IsRecoveryEvent)

RECURSIVE RecoveryEventsOf(_)

\* the events of the first k recoveries: tool_recovery, then
\* tool_recovery_completed when the nested call has reported success
RecoveryEventsOf(k) ==
    IF k = 0 THEN <<>>
    ELSE RecoveryEventsOf(k - 1)
         \o << <<"tool_recovery", trace.recoveries[k][1]>> >>
         \o (IF k <= Len(trace.recovery_results) /\ trace.recovery_results[k][1] = "success"
             THEN << <<"tool_recovery_completed", trace.recoveries[k][1]>> >>
             ELSE <<>>)

\* C20: the recovery events are, for each processed unsupported marker in
\* turn, one tool_recovery, followed by tool_recovery_completed exactly when its
\* nested call reported success; the tool_recovery is there while the nested
\* call is outstanding, and a successful recovery returns a space and the text.
C20_RecoveryEventProtocol ==
    /\ RecoveryEvents = RecoveryEventsOf(Len(trace.recoveries))
    /\ executor.pc = "await_recovery" =>
          /\ Len(trace.recovery_results) = Len(trace.recoveries) - 1
          /\ Last(RecoveryEvents) = <<"tool_recovery", Last(trace.recoveries)[1]>>
          /\ Last(trace.nested)[1] = "recovery"
    /\ executor.pc # "await_recovery" =>
          Len(trace.recovery_results) = Len(trace.recoveries)
    /\ \A k \in 1..Len(trace.recovery_results) :
          /\ trace.recovery_results[k][1] = "success" =>
                (Len(trace.recovery_results[k][2]) = 2 /\ trace.recovery_results[k][2][1] = " ")
          /\ trace.recovery_results[k][1] = "no_llm" => ~llm_call_fn

C20_Witness ==
    /\ Done
    /\ tool_prompts # <<>>
    /\ source = UnsupportedMarker \o <<"x">>
    /\ trace.recovery_results = << <<"success", RecoveryOutputText>> >>
    /\ trace.events = << <<"tool_recovery", <<"g">>>>, <<"tool_recovery_completed", <<"g">>>> >>
    /\ trace.emitted = RecoveryOutputText \o <<"x">>

\* ------------------------------------------------------------------------
\* C21  Event delivery is best-effort.  Whatever the executor is about to do
\* (process the next chunk, of any length, or resume after a nested call, with
\* any outcome), a sink that raises on the emissions leaves the text returned,
\* the buffer, generated_content, the position of the executor and the nested
\* calls exactly as a sink that accepts them does.
\* ------------------------------------------------------------------------
WithSink(sink) == [St EXCEPT !.t.sink = sink]

\* what the stream and the model calls depend on
Engine(st) ==
    [e |-> st.e, emitted |-> st.t.emitted, nested |-> st.t.nested,
     calls |-> st.t.calls, recoveries |-> st.t.recoveries]

C21_EmissionFailureInvisible ==
    /\ (executor.pc = "idle" /\ flushes = 0)
          => \A n \in 1..Len(stream) :
                Engine(ProcessChunkCall(WithSink("raises"), Prefix(stream, n)))
                   = Engine(ProcessChunkCall(WithSink("delivers"), Prefix(stream, n)))
    /\ executor.pc \in {"await_tool", "await_recovery"}
          => \A outcome \in Outcomes :
                Engine(NestedCallReturned(WithSink("raises"), outcome))
                   = Engine(NestedCallReturned(WithSink("delivers"), outcome))

\* a stream went on to its end, text after the marker included, although the
\* sink raised on an emission
C21_Witness ==
    /\ trace.sink_raised
    /\ stream = <<>>
    /\ executor.pc = "idle"
    /\ source = OpenTag(CmdA) \o CloseTag(CmdA) \o <<"x">>
    /\ trace.emitted = ToolOutputText \o <<"x">>

\* ------------------------------------------------------------------------
\* C22  Nested calls block the owning stream and preserve order.  While a
\* nested call is outstanding the text before its marker has been put out, the
\* marker and what follows it are still held, and no chunk is taken; the first
\* thing put out when the call returns is its result; at most one nested call
\* is outstanding, and one is exactly while process_chunk is suspended.
\* ------------------------------------------------------------------------
Awaiting(e) == e.pc \in {"await_tool", "await_recovery"}

\* everything process_chunk has returned or collected for its return, in order
Timeline(e, t) ==
    t.emitted \o e.output \o (IF e.pending.path = "direct" THEN e.pending.before ELSE <<>>)

\* nested calls made and not yet returned
Outstanding(t) ==
    Len(t.nested)
      - Cardinality({k \in 1..Len(t.tool_results) : t.tool_results[k][1] \in Outcomes})
      - Cardinality({k \in 1..Len(t.recovery_results) :
                        t.recovery_results[k][1] \in Outcomes})

OutstandingOk(e, t) == Outstanding(t) = (IF Awaiting(e) THEN 1 ELSE 0)

C22_NestedCallsBlockAndKeepOrder ==
    [][/\ OutstandingOk(executor, trace)
       /\ OutstandingOk(executor', trace')
       /\ Awaiting(executor) =>
             LET T == Timeline(executor, trace)
                 result == IF executor.pc = "await_tool"
                           THEN trace'.tool_results[Len(trace.tool_results) + 1][2]
                           ELSE trace'.recovery_results[Len(trace.recovery_results) + 1][2]
                 before == Prefix(executor.buffer, executor.pending.start - 1)
             IN /\ stream' = stream
                /\ EndsWith(T, before)
                /\ executor.pending.path = "loop"
                      => trace.origin \o From(executor.buffer, executor.pending.start)
                            = Prefix(source, Len(source) - Len(stream))
                /\ Len(Timeline(executor', trace')) >= Len(T) + Len(result)
                /\ Prefix(Timeline(executor', trace'), Len(T) + Len(result)) = T \o result
      ]_vars

\* text, the result of a recovery call and the text after its marker, in this
\* order, with the marker handled in the scanning loop
C22_Witness ==
    /\ tool_prompts # <<>>
    /\ source = <<"x">> \o UnsupportedMarker \o <<"x">>
    /\ stream = <<>>
    /\ executor.pc = "idle"
    /\ trace.emitted = <<"x">> \o RecoveryOutputText \o <<"x">>

\* ------------------------------------------------------------------------
\* C23  Command names in markers are matched without regard to letter case.
\* When a stream with the marker <a>x</a> has gone through an executor whose
\* tool set has the key A, in one chunk or in several, the marker has been
\* executed once as a tool with the context x and none of it was put out.
\* ------------------------------------------------------------------------
C23_CaseInsensitiveInEveryChunking ==
    (/\ source \in CaseInputs
     /\ \E i \in 1..Len(tool_prompts) : LowerStr(tool_prompts[i].key) = <<"a">>
     /\ stream = <<>>
     /\ executor.pc = "idle")
        => /\ trace.calls = << << <<"a">>, <<"x">> >> >>
           /\ ~Contains(trace.emitted, <<"<">>)

\* ------------------------------------------------------------------------
\* C25  The content used for a tool execution is that of the tool named in
\* the marker.  Whenever a nested tool call is outstanding, its system prompt
\* was built from the content stored under a key that equals the command of
\* the marker up to letter case, and its user message is the marker's context.
\* ------------------------------------------------------------------------
C25_ContentOfTheNamedTool ==
    executor.pc = "await_tool"
       => \E i \in 1..Len(tool_prompts) :
             /\ LowerStr(tool_prompts[i].key) = LowerStr(executor.pending.name)
             /\ Last(trace.nested)
                   = <<"tool", tool_prompts[i].content, executor.pending.arg>>

\* ------------------------------------------------------------------------
\* C26  No text is lost, duplicated or reordered.  When a text without any
\* complete marker has gone through process_chunk, in any chunks, and flush
\* has been called, the results of process_chunk followed by the result of
\* the first flush are the text.
\* ------------------------------------------------------------------------
C26_ChunksAndFlushGiveTheText ==
    (Idle /\ stream = <<>> /\ flushes >= 1 /\ ~HasCompleteMarker(source))
        => trace.emitted \o trace.flushed[1] = source

\* text was put out at once and an opened marker came out of flush
C26_Witness ==
    /\ Idle /\ stream = <<>> /\ flushes = 1
    /\ trace.several
    /\ source = <<"x">> \o OpenTag(CmdA) \o <<"x">>
    /\ trace.emitted = <<"x">>
    /\ trace.flushed = << OpenTag(CmdA) \o <<"x">> >>

\* ------------------------------------------------------------------------
\* C27  generated_content tracks the emitted text.  Between calls of
\* process_chunk, generated_content is the concatenation of the values
\* returned so far; and the context handed to a recovery call is (the last
\* RecoveryWindow units of) everything returned or collected up to the
\* unsupported marker, the text right before the marker included.
\* ------------------------------------------------------------------------
C27_BetweenCalls == Idle => executor.generated_content = trace.emitted

C27_GeneratedContentTracksEmitted ==
    /\ C27_BetweenCalls
    /\ executor.pc = "await_recovery"
          => Last(trace.nested)[3] = ContextPreview(Timeline(executor, trace))

\* ------------------------------------------------------------------------
\* C28  Inline hints and inline execution go together.  In
\* generate_chat_completion the system prompt of the final generation call
\* holds the marker-format tool hints if and only if inline tool execution has
\* been enabled in the metadata of the request.
\* ------------------------------------------------------------------------
C28_HintsIffInlineEnabled ==
    (Router /\ gating.pc \in {"await_final", "done"}) =>
        (Contains(gating.final_calls[1], ToolHints) = gating.inline_enabled)

\* ------------------------------------------------------------------------
\* C30  process_chunk terminates.  A call of process_chunk handles at most as
\* many markers, and makes at most as many nested calls, as there are complete
\* markers in the buffer it starts with; the marker it is suspended on lies in
\* the buffer, and when the nested call returns the buffer is strictly shorter
\* at the next suspension or return than it was.
\* ------------------------------------------------------------------------
\* the call of process_chunk that a step belongs to, at its entry: the call in
\* progress, or the call the step makes with the chunk it takes off the stream
CallOfStep ==
    IF Awaiting(executor) THEN trace.call
    ELSE [buffer |-> executor.buffer \o Prefix(stream, Len(stream) - Len(stream')),
          nested |-> Len(trace.nested),
          results |-> Len(trace.tool_results) + Len(trace.recovery_results)]

NestedInCall(t, call) == Len(t.nested) - call.nested

HandledInCall(t, call) == Len(t.tool_results) + Len(t.recovery_results) - call.results

C30_ProcessChunkTerminates ==
    [][/\ (HandledInCall(trace', CallOfStep) > 0 \/ NestedInCall(trace', CallOfStep) > 0)
             => LET markers == CompleteMarkers(CallOfStep.buffer)
                IN /\ NestedInCall(trace', CallOfStep) <= markers
                   /\ HandledInCall(trace', CallOfStep) <= markers
       /\ Awaiting(executor) =>
             /\ 1 <= executor.pending.start
             /\ executor.pending.start <= executor.pending.end
             /\ executor.pending.end <= Len(executor.buffer)
             /\ Len(executor'.buffer) < Len(executor.buffer)
      ]_vars

\* one call of process_chunk on its second nested call, for the second of the
\* two markers of its chunk
C30_Witness ==
    /\ executor.pc = "await_tool"
    /\ source = UnsupportedMarker \o OpenTag(CmdA) \o <<"x">> \o CloseTag(CmdA)
    /\ stream = <<>>
    /\ ~trace.several
    /\ CompleteMarkers(trace.call.buffer) = 2
    /\ NestedInCall(trace, trace.call) = 2

\* ------------------------------------------------------------------------
\* ToolJsonTracker (tool_json_tracker.py)
\*
\* The text is a sequence of characters; "[bq]" is the backquote.  The
\* tracker record holds the object's fields (tool_commands, buffer,
\* in_tool_block, current_tool) and, for the caller, the stream text, the part
\* not yet arrived, the concatenation of the values returned so far, the
\* events handed to the event emitter, and whether flush has been called.
\* ------------------------------------------------------------------------
BlockFence == <<"[bq]", "[bq]", "[bq]">>

\* the number of characters before the end of the buffer within which a fence
\* is taken for the possible start of a block
FenceWindow == 20

\* the length of the longest run of whitespace of buf that starts at i
SpaceRun(buf, i) ==
    SetMax({n \in 0..(Len(buf) - i + 1) : \A k \in 0..(n - 1) : IsSpace(buf[i + k])})

\* self._start_pattern.search(buffer): the leftmost fence followed by one of
\* the commands in any case, with the whitespace after it; start = 0 without
\* match.  No command of the sets used here is the beginning of another, so
\* the order of the alternatives does not matter.
StartSearch(buf, cmds) ==
    LET hits == {i \in 1..Len(buf) : \E c \in cmds : StartsWithAtCI(buf, i, BlockFence \o c)}
    IN IF hits = {} THEN [start |-> 0, end |-> 0, group |-> <<>>]
       ELSE LET i == SetMin(hits)
                c == CHOOSE c \in cmds : StartsWithAtCI(buf, i, BlockFence \o c)
                after == i + Len(BlockFence) + Len(c)
            IN [start |-> i,
                end |-> after + SpaceRun(buf, after) - 1,
                group |-> SubSeq(buf, i + Len(BlockFence), after - 1)]

\* re.search(r'\n?```', buffer): the position of the last character of the
\* leftmost match, 0 without match
EndSearch(buf) ==
    LET hits == {i \in 1..Len(buf) : StartsWithAt(buf, i, BlockFence)}
    IN IF hits = {} THEN 0 ELSE SetMin(hits) + Len(BlockFence) - 1

\* buffer.rfind("```") as a 1-based position, 0 for -1
RFindFence(buf) ==
    LET hits == {i \in 1..Len(buf) : StartsWithAt(buf, i, BlockFence)}
    IN IF hits = {} THEN 0 ELSE SetMax(hits)

\* _emit_tool_event with an event emitter set
EmitToolEvent(tr, type) ==
    IF tr.current_tool # <<>>
    THEN [tr EXCEPT !.events = Append(@, <<type, tr.current_tool>>)]
    ELSE tr

\* the while loop of process_chunk; what it appends to output is appended to
\* tr.returned
RECURSIVE TrackerLoop(_)
TrackerLoop(tr) ==
    IF tr.buffer = <<>> THEN tr
    ELSE IF ~tr.in_tool_block
    THEN LET match == StartSearch(tr.buffer, tr.tool_commands)
             potential_start == RFindFence(tr.buffer)
         IN IF match.start # 0
            THEN TrackerLoop(
                   [EmitToolEvent([tr EXCEPT !.current_tool = match.group,
                                             !.in_tool_block = TRUE,
                                             !.returned = @ \o Prefix(tr.buffer, match.start - 1)],
                                  "tool_executing")
                      EXCEPT !.buffer = From(tr.buffer, match.end + 1)])
            ELSE IF potential_start >= 1
                    /\ potential_start - 1 > Len(tr.buffer) - FenceWindow
            THEN [tr EXCEPT !.returned = @ \o Prefix(tr.buffer, potential_start - 1),
                            !.buffer = From(tr.buffer, potential_start)]
            ELSE TrackerLoop([tr EXCEPT !.returned = @ \o tr.buffer, !.buffer = <<>>])
    ELSE LET end_match == EndSearch(tr.buffer)
         IN IF end_match # 0
            THEN TrackerLoop(
                   [EmitToolEvent(tr, "tool_completed")
                      EXCEPT !.in_tool_block = FALSE,
                             !.current_tool = <<>>,
                             !.buffer = From(tr.buffer, end_match + 1)])
            ELSE TrackerLoop([tr EXCEPT !.buffer = <<>>])

\* ToolJsonTracker.process_chunk
TrackerProcessChunk(tr, chunk) ==
    IF tr.tool_commands = {}
    THEN [tr EXCEPT !.returned = @ \o chunk]
    ELSE TrackerLoop([tr EXCEPT !.buffer = @ \o chunk])

\* ToolJsonTracker.flush
TrackerFlushCall(tr) ==
    [tr EXCEPT !.returned = @ \o (IF tr.in_tool_block THEN <<>> ELSE tr.buffer),
               !.buffer = <<>>,
               !.flushed = TRUE]

\* the streams fed to the tracker: a tool block of a registered command
\* between two texts, a code block of another language, plain text, and a
\* fence with more than FenceWindow characters after it
GraphCommand == <<"g", "r">>

BlockBody == <<"{", "}">>

ToolBlock(pre, cmd, post) ==
    pre \o BlockFence \o cmd \o <<"\n">> \o BlockBody \o <<"\n">> \o BlockFence \o post

BlockTexts == {<<>>, <<"a">>, <<"a", "\n">>}

BlockCommands == {GraphCommand, <<"G", "r">>}

TrackerInputs ==
    {ToolBlock(pre, cmd, post) : pre \in BlockTexts, cmd \in BlockCommands, post \in BlockTexts}
    \cup {ToolBlock(<<>>, <<"p">>, <<"a">>), <<"a", "b">>,
          BlockFence \o [i \in 1..FenceWindow |-> "a"]}

InitTracker ==
    /\ \E cmds \in {{}, {GraphCommand}}, text \in TrackerInputs :
          tracker = [NoTracker EXCEPT !.tool_commands = cmds,
                                      !.source = text,
                                      !.stream = text]
    /\ tool_prompts = <<>>
    /\ llm_call_fn = FALSE
    /\ source = <<>>
    /\ stream = <<>>
    /\ executor = FreshExecutor
    /\ trace = FreshTrace
    /\ flushes = 0
    /\ response = <<>>
    /\ parsed = NotParsed
    /\ request = NoRequest
    /\ gating = NoGating
    /\ daemon = NoDaemon

NotTracker ==
    <<tool_prompts, llm_call_fn, executor, trace, source, stream, flushes, response,
      parsed, request, gating, daemon>>

\* the caller hands the next chunk of the stream to the tracker
TrackerChunk(n) ==
    /\ ~tracker.flushed
    /\ n \in 1..Len(tracker.stream)
    /\ tracker' = [TrackerProcessChunk(tracker, Prefix(tracker.stream, n))
                     EXCEPT !.stream = From(tracker.stream, n + 1)]
    /\ UNCHANGED NotTracker

\* the stream has ended: the caller flushes the tracker
TrackerFlush ==
    /\ ~tracker.flushed
    /\ tracker.stream = <<>>
    /\ tracker' = TrackerFlushCall(tracker)
    /\ UNCHANGED NotTracker

NextTracker ==
    \/ \E n \in 1..Len(tracker.stream) : TrackerChunk(n)
    \/ TrackerFlush

SpecTracker == InitTracker /\ [][NextTracker]_vars

\* ------------------------------------------------------------------------
\* C29  ToolJsonTracker closes every block it opens.  For every chunking of a
\* stream that holds a complete tool block of a registered command: once the
\* closing fence has been received in full the tracker is not in_tool_block
\* and has emitted tool_executing and then tool_completed for the block, and
\* nothing else; what has been returned is a beginning of the text around
\* the block, without a character of its body; and after flush all of the
\* text before and after the block has been returned.
\* ------------------------------------------------------------------------
C29_TrackerClosesEveryBlock ==
    \A pre \in BlockTexts, cmd \in BlockCommands, post \in BlockTexts :
        (/\ tracker.tool_commands = {GraphCommand}
         /\ tracker.source = ToolBlock(pre, cmd, post))
        => LET block_end == Len(tracker.source) - Len(post)
               received == Len(tracker.source) - Len(tracker.stream)
           IN /\ \E n \in 0..Len(pre \o post) : tracker.returned = Prefix(pre \o post, n)
              /\ received >= block_end =>
                    /\ ~tracker.in_tool_block
                    /\ tracker.events = << <<"tool_executing", cmd>>,
                                           <<"tool_completed", cmd>> >>
              /\ tracker.flushed => tracker.returned = pre \o post

\* ------------------------------------------------------------------------
\* MessageTaggingDaemon: the lock on the daemon's config row
\* (services/message_tagging_daemon.py, models/message_tags.py)
\*
\* Two application instances share the config row.  Each runs the scheduled
\* loop and may be asked for one manual run.  Times are whole hours of one
\* day; 0 stands for None in lock_acquired_at and last_run_at, and "None" in
\* lock_instance_id.  Within an instance the code between two awaits runs
\* without interruption by the instance's other task; the instances are
\* separate processes, so their reads and writes of the row interleave
\* freely.  owner is the instance whose update_lock wrote the lock the row
\* holds (0 after a release).
\* ------------------------------------------------------------------------
Instances == {1, 2}

MaxHour == 4

\* run_time "03:00", the default of the config row
RunHour == 3

\* the run window: within 1 hour of the scheduled time
RunWindow == 1

\* a daily schedule runs again after 20 hours
DailyGap == 20

\* a lock older than 2 hours (7200 s) is stale
LockTimeout == 2

NoLock == [lock_instance_id |-> "None", lock_acquired_at |-> 0]

Sleeping == [pc |-> "sleep", config |-> NoLock, start_time |-> 0]

NotAsked == [pc |-> "idle", config |-> NoLock, start_time |-> 0]

Abs(n) == IF n < 0 THEN -n ELSE n

\* _should_run for the daily schedule
ShouldRun(last_run_at, now) ==
    /\ ~(Abs(now - RunHour) > RunWindow)
    /\ ~(last_run_at # 0 /\ now - last_run_at < DailyGap)

\* _acquire_lock: the test it makes on the config it was given before it
\* writes the lock
LockOpen(config, now, instance_id) ==
    ~(/\ config.lock_acquired_at # 0
      /\ now - config.lock_acquired_at < LockTimeout
      /\ config.lock_instance_id # instance_id)

\* TaggingDaemonConfigs.update_lock, written by instance i (0: a release)
UpdateLock(d, instance_id, timestamp, i) ==
    [d EXCEPT !.config = [lock_instance_id |-> instance_id, lock_acquired_at |-> timestamp],
              !.owner = i]

\* the end of _execute_tagging_run (update_last_run) and the finally clause
\* that follows it (_release_lock)
RunEnds(d, start_time) ==
    [UpdateLock(d, "None", 0, 0) EXCEPT !.last_run_at = start_time]

\* a task of instance i is between two reads or writes of the row that no
\* await separates
MidSection(d, i) == d.loop[i].pc = "check" \/ d.manual[i].pc \in {"release", "acquire"}

Inside(d, i) == d.loop[i].pc = "run" \/ d.manual[i].pc = "run"

InitDaemon ==
    /\ \E ids \in {<<"default", "default">>, <<"i1", "i2">>}, hour \in {1, 2} :
          daemon = [started |-> TRUE, instance_id |-> ids, now |-> hour,
                    config |-> NoLock, last_run_at |-> 0, owner |-> 0,
                    loop |-> [i \in Instances |-> Sleeping],
                    checked |-> [i \in Instances |-> 0],
                    manual |-> [i \in Instances |-> NotAsked]]
    /\ tracker = NoTracker
    /\ tool_prompts = <<>>
    /\ llm_call_fn = FALSE
    /\ source = <<>>
    /\ stream = <<>>
    /\ executor = FreshExecutor
    /\ trace = FreshTrace
    /\ flushes = 0
    /\ response = <<>>
    /\ parsed = NotParsed
    /\ request = NoRequest
    /\ gating = NoGating

NotDaemon ==
    <<tool_prompts, llm_call_fn, executor, trace, source, stream, flushes, response,
      parsed, request, gating, tracker>>

\* an hour passes
Tick ==
    /\ daemon.now < MaxHour
    /\ daemon' = [daemon EXCEPT !.now = @ + 1]
    /\ UNCHANGED NotDaemon

\* _run_loop wakes from its sleep of one hour and reads the config
LoopWake(i) ==
    /\ daemon.loop[i].pc = "sleep"
    /\ daemon.checked[i] # daemon.now
    /\ ~MidSection(daemon, i)
    /\ daemon' = [daemon EXCEPT !.loop[i] = [pc |-> "check", config |-> daemon.config,
                                             start_time |-> 0],
                                !.checked[i] = daemon.now]
    /\ UNCHANGED NotDaemon

\* _run_loop: _should_run and _acquire_lock on the config read, then either
\* the lock is written and _execute_tagging_run entered, or the loop sleeps
LoopAcquire(i) ==
    /\ daemon.loop[i].pc = "check"
    /\ daemon' =
         IF /\ ShouldRun(daemon.last_run_at, daemon.now)
            /\ LockOpen(daemon.loop[i].config, daemon.now, daemon.instance_id[i])
         THEN [UpdateLock(daemon, daemon.instance_id[i], daemon.now, i)
                 EXCEPT !.loop[i].pc = "run", !.loop[i].start_time = daemon.now]
         ELSE [daemon EXCEPT !.loop[i] = Sleeping]
    /\ UNCHANGED NotDaemon

\* _run_loop: _execute_tagging_run returns and the lock is released
LoopEnd(i) ==
    /\ daemon.loop[i].pc = "run"
    /\ ~MidSection(daemon, i)
    /\ daemon' = [RunEnds(daemon, daemon.loop[i].start_time) EXCEPT !.loop[i] = Sleeping]
    /\ UNCHANGED NotDaemon

\* run_manual reads the config
ManualRead(i) ==
    /\ daemon.manual[i].pc = "idle"
    /\ ~MidSection(daemon, i)
    /\ daemon' = [daemon EXCEPT !.manual[i] = [pc |-> "release", config |-> daemon.config,
                                               start_time |-> 0]]
    /\ UNCHANGED NotDaemon

\* run_manual calls _release_lock
ManualRelease(i) ==
    /\ daemon.manual[i].pc = "release"
    /\ daemon' = [UpdateLock(daemon, "None", 0, 0) EXCEPT !.manual[i].pc = "acquire"]
    /\ UNCHANGED NotDaemon

\* run_manual: _acquire_lock on the config read before the release
ManualAcquire(i) ==
    /\ daemon.manual[i].pc = "acquire"
    /\ daemon' =
         IF LockOpen(daemon.manual[i].config, daemon.now, daemon.instance_id[i])
         THEN [UpdateLock(daemon, daemon.instance_id[i], daemon.now, i)
                 EXCEPT !.manual[i].pc = "run", !.manual[i].start_time = daemon.now]
         ELSE [daemon EXCEPT !.manual[i].pc = "done"]
    /\ UNCHANGED NotDaemon

\* run_manual: _execute_tagging_run returns and the lock is released
ManualEnd(i) ==
    /\ daemon.manual[i].pc = "run"
    /\ ~MidSection(daemon, i)
    /\ daemon' = [RunEnds(daemon, daemon.manual[i].start_time) EXCEPT !.manual[i].pc = "done"]
    /\ UNCHANGED NotDaemon

NextDaemon ==
    \/ Tick
    \/ \E i \in Instances : LoopWake(i)
    \/ \E i \in Instances : LoopAcquire(i)
    \/ \E i \in Instances : LoopEnd(i)
    \/ \E i \in Instances : ManualRead(i)
    \/ \E i \in Instances : ManualRelease(i)
    \/ \E i \in Instances : ManualAcquire(i)
    \/ \E i \in Instances : ManualEnd(i)

SpecDaemon == InitDaemon /\ [][NextDaemon]_vars

\* ------------------------------------------------------------------------
\* C24  The tagging daemon's lock prevents concurrent runs.  While an
\* instance is inside _execute_tagging_run and the row holds the lock it
\* wrote, younger than 2 hours, no step makes another instance enter
\* _execute_tagging_run, and no step of another instance (or of the clock)
\* takes that lock off the row.
\* ------------------------------------------------------------------------
C24_LockPreventsConcurrentRuns ==
    [][\A i \in Instances :
          (/\ Inside(daemon, i)
           /\ daemon.owner = i
           /\ daemon.now - daemon.config.lock_acquired_at < LockTimeout)
          => /\ \A j \in Instances \ {i} :
                   ~(/\ daemon'.loop[j].pc = "run" /\ daemon.loop[j].pc # "run")
                   /\ ~(/\ daemon'.manual[j].pc = "run" /\ daemon.manual[j].pc # "run")
             /\ (daemon'.loop[i] = daemon.loop[i] /\ daemon'.manual[i] = daemon.manual[i])
                   => daemon'.owner = i
      ]_vars

====
